---- MODULE Spec2Model ----
(***************************************************************************)
(* QuickEdit (qe) v0.2.0: the navigation engine, the search engine and the *)
(* modal key dispatcher of src/qe.c, as a state machine over the editor's  *)
(* global state.                                                           *)
(*                                                                         *)
(* Bytes and keycodes are integers (a byte is 0..255, '\n' is 10).  File   *)
(* offset i of the mapped file is page[i+1].  The bytes the process has    *)
(* mapped directly below and above the file mapping are lo and hi: the     *)
(* code indexes editor.page outside [0, st_size) in several places, and    *)
(* what such an access yields (a byte, or a fault that ends the process)   *)
(* depends on what is mapped there.                                        *)
(***************************************************************************)
EXTENDS Integers, Sequences, FiniteSets, TLC

VARIABLES
    page,           \* editor.page: the mapped bytes of the file
    lo,             \* bytes mapped just below editor.page; lo[k] is page[-k]
    hi,             \* bytes mapped just above; hi[k] is page[st_size + k - 1]
    read_only,      \* editor.read_only
    wrap,           \* editor.wrap
    width,          \* terminal.width
    height,         \* terminal.height
    resized,        \* terminal.resized
    winsize,        \* the window size TIOCGWINSZ reports: <<ws_col, ws_row>>
    tty,            \* the terminal's settings in force: "raw" or "original"
    page_offset,    \* editor.page_offset
    page_offset_x,  \* editor.page_offset_x
    cursor_x,       \* editor.cursor_x (uint16_t)
    cursor_y,       \* editor.cursor_y (uint16_t)
    mode,           \* editor.mode
    search_buf,     \* editor.search_buf[0 .. search_len-1]
    search_len,     \* editor.search_len (size_t)
    dirty,          \* editor.dirty
    dirty_cursor,   \* editor.dirty_cursor
    status_buffer,  \* editor.status_buffer, as the tuple of the values printed
    proc,           \* the process: "running", "exited", "fatal" or "crashed"
    key,            \* the keycode the last qe_process_key call was given
    pc,             \* position of a direct call of one function
    arg,            \* argument of that call
    ret             \* its result

vars == <<page, lo, hi, read_only, wrap, width, height, page_offset,
          page_offset_x, cursor_x, cursor_y, mode, search_buf, search_len,
          dirty, dirty_cursor, status_buffer, proc, key, pc, arg, ret,
          resized, winsize, tty>>

----------------------------------------------------------------------------
(* Bounds of the model. *)

MaxSize == 3        \* longest generated file of a direct call, in bytes
MaxFile == 2        \* longest generated file of an editing session, in bytes
MaxUnder == 2       \* most bytes mapped below the file mapping
MaxPox == 2         \* cap on page_offset_x
MaxCy == 2          \* cap on cursor_y
MaxPat == 1         \* cap on the typed search pattern
MaxN == 2           \* largest |n| of a direct qe_move_window_y call
MaxNeedle == 2      \* longest generated pattern of a direct qe_search call
ViewWidth == 3      \* terminal.width of a direct cursor-position call
ViewHeight == 4     \* terminal.height of a direct cursor-position call

----------------------------------------------------------------------------
(* Machine integers and bytes. *)

NL == 10
CharA == 97

\* (uint8_t) c / (char) c of an int keycode.
Byte(c) == c % 256

\* The value of a uint16_t after an update.
UInt16(v) == v % 65536

\* A size_t value x is held as the integer congruent to it modulo 2^64 that
\* lies in -2^63 .. 2^63 - 1 (SIZE_MAX is -1), so that + and - are the
\* integers' and only the comparisons differ: these are the unsigned ones.
ULt(a, b) == IF (a < 0) = (b < 0) THEN a < b ELSE b < 0
UGe(a, b) == ~ULt(a, b)

\* INT32_MAX, the largest integer the model checker holds as well.
INT32_MAX == 2147483647

\* The value of an int32_t that is assigned the int64_t sum a + b, for a
\* and b within the int32_t range (the conversion keeps the low 32 bits of
\* the sum, as the compiler of the Makefile does); no intermediate value
\* leaves that range.
Int32Add(a, b) ==
    IF b > 0 /\ a > INT32_MAX - b
    THEN (a - INT32_MAX) + (b - INT32_MAX) - 2
    ELSE IF b < 0 /\ a < (-INT32_MAX - 1) - b
    THEN (a + INT32_MAX) + (b + INT32_MAX) + 2
    ELSE a + b

\* C's / and % on int (truncation toward zero), for b > 0.
CDiv(a, b) == IF a >= 0 THEN a \div b ELSE -((-a) \div b)
CRem(a, b) == a - b * CDiv(a, b)

----------------------------------------------------------------------------
(* enum edit_mode, enum keycode, CTRL(k). *)

MODE_NORMAL == "NORMAL"
MODE_INSERT == "INSERT"
MODE_SEARCH == "SEARCH"

TAB == 9
ENTER == 13
ESC == 27
BACKSPACE == 127
HOME == 511
END == 512
DEL == 513
PGUP == 514
PGDN == 515
ARROW_UP == 516
ARROW_DOWN == 517
ARROW_RIGHT == 518
ARROW_LEFT == 519

\* #define CTRL(k) ((k & 0x1f)), for a letter k.
CTRL(k) == k % 32

\* sizeof(editor.search_buf)
SearchBufSize == 64

----------------------------------------------------------------------------
(* The editor state as one value, so that the C functions compose. *)

Editor ==
    [page |-> page, lo |-> lo, hi |-> hi, read_only |-> read_only,
     wrap |-> wrap, width |-> width, height |-> height,
     page_offset |-> page_offset, page_offset_x |-> page_offset_x,
     cursor_x |-> cursor_x, cursor_y |-> cursor_y, mode |-> mode,
     search_buf |-> search_buf, search_len |-> search_len,
     dirty |-> dirty, dirty_cursor |-> dirty_cursor,
     status_buffer |-> status_buffer, proc |-> proc, tty |-> tty]

\* editor.file.st_size
st_size(e) == Len(e.page)

\* Whether editor.page[i] is an address the process has mapped.
Mapped(e, i) == -Len(e.lo) <= i /\ i < st_size(e) + Len(e.hi)

\* editor.page[i], for a mapped i.
Mem(e, i) ==
    IF i < 0 THEN e.lo[-i]
    ELSE IF i < st_size(e) THEN e.page[i + 1]
    ELSE e.hi[i - st_size(e) + 1]

\* editor.page[i] == '\n', for a mapped i.
IsNL(e, i) == Mem(e, i) = NL

\* An access of unmapped memory ends the process (SIGSEGV / SIGBUS).
Crash(e) == [e EXCEPT !.proc = "crashed"]

----------------------------------------------------------------------------
(* qe_update_status_buffer: "%s: %3d%% - %.32s (+%d) (%d/%d)" of the mode, *)
(* the percentage, the file name, page_offset_x, page_offset +             *)
(* page_offset_x and the file size.  The file name never changes.          *)

qe_update_status_buffer(e) ==
    LET through == IF e.page_offset # 0
                   THEN CDiv(100 * e.page_offset, st_size(e))
                   ELSE 0
    IN  [e EXCEPT !.status_buffer =
            <<"file", e.mode, through, e.page_offset_x,
              e.page_offset + e.page_offset_x, st_size(e)>>]

----------------------------------------------------------------------------
(* qe_move_window_y *)

\* The inner loop of the backward case followed by its adjustment:
\*   while (page_offset != 0 && page[page_offset] != '\n') page_offset -= 1;
\*   if (page_offset != 0) page_offset += 1;
\* The loop does not test page_offset against the start of the mapping.
RECURSIVE move_window_y_line_start(_, _)
move_window_y_line_start(e, po) ==
    IF po = 0 THEN [page_offset |-> 0, exit |-> "break"]
    ELSE IF ~Mapped(e, po) THEN [page_offset |-> po, exit |-> "fault"]
    ELSE IF IsNL(e, po) THEN [page_offset |-> po + 1, exit |-> "break"]
    ELSE move_window_y_line_start(e, po - 1)

\* The while (1) loop: page_offset and i at the top of an iteration.  exit
\* is "clamp_start" / "clamp_end" for the two early returns, "break" for
\* the break, "fault" when the process died in the inner loop.
RECURSIVE move_window_y_scan(_, _, _, _, _)
move_window_y_scan(e, po, i, step, an) ==
    IF po < 0 THEN [page_offset |-> 0, exit |-> "clamp_start"]
    ELSE IF po >= st_size(e)
    THEN [page_offset |-> st_size(e) - 1, exit |-> "clamp_end"]
    ELSE IF IsNL(e, po)
    THEN IF i + 1 > an
         THEN IF step < 0
              THEN move_window_y_line_start(e, po + step)
              ELSE [page_offset |-> po + step, exit |-> "break"]
         ELSE move_window_y_scan(e, po + step, i + 1, step, an)
    ELSE move_window_y_scan(e, po + step, i, step, an)

\* The scan of qe_move_window_y(n) started at page offset po.
move_window_y_from(e, po, n) ==
    LET step == IF n > 0 THEN 1 ELSE -1
        an == IF n > 0 THEN n ELSE -n
    IN  move_window_y_scan(e, po, 0, step, an)

\* What follows the loop, for the way r the loop was left: nothing more
\* after an early return, the status buffer and the dirty flag after the
\* break.
move_window_y_end(e, r) ==
    CASE r.exit = "fault" -> Crash([e EXCEPT !.page_offset = r.page_offset])
      [] r.exit = "break" ->
            [qe_update_status_buffer([e EXCEPT !.page_offset = r.page_offset])
                EXCEPT !.dirty = TRUE]
      [] OTHER ->
            qe_update_status_buffer([e EXCEPT !.page_offset = r.page_offset])

qe_move_window_y(e, n) ==
    move_window_y_end(e, move_window_y_from(e, e.page_offset, n))

----------------------------------------------------------------------------
(* qe_move_window_x *)

qe_move_window_x(e, n) ==
    LET pox == e.page_offset_x + n
    IN  IF pox < 0
        THEN qe_update_status_buffer([e EXCEPT !.page_offset_x = 0])
        ELSE [qe_update_status_buffer([e EXCEPT !.page_offset_x = pox])
                EXCEPT !.dirty = TRUE]

----------------------------------------------------------------------------
(* qe_get_cursor_byte_position *)

\* memchr(editor.page + from, '\n', len): the offset of the first newline
\* among the len bytes at from, "none" without one, "fault" when the scan
\* leaves the mapped memory first.  len is a size_t: a negative len stands
\* for a length above 2^63, which no scan exhausts.
RECURSIVE memchr_nl(_, _, _)
memchr_nl(e, from, len) ==
    IF len = 0 THEN [r |-> "none", at |-> 0]
    ELSE IF ~Mapped(e, from) THEN [r |-> "fault", at |-> 0]
    ELSE IF IsNL(e, from) THEN [r |-> "found", at |-> from]
    ELSE memchr_nl(e, from + 1, len - 1)

\* The for loop over cursor_y: offset before iteration i, and after the
\* memchr of iteration i returned s.  The loop sets
\* offset = s - &editor.page[offset], the distance from offset to the
\* newline, and then adds one.
RECURSIVE cursor_line_scan(_, _, _)
RECURSIVE cursor_line_next(_, _, _, _)
cursor_line_scan(e, offset, i) ==
    IF i >= e.cursor_y THEN [r |-> "loop_end", offset |-> offset]
    ELSE cursor_line_next(e, offset, i,
                          memchr_nl(e, offset, st_size(e) - offset))

cursor_line_next(e, offset, i, s) ==
    CASE s.r = "fault" -> [r |-> "fault", offset |-> offset]
      [] s.r = "none" -> [r |-> "eof", offset |-> st_size(e) - 1]
      [] OTHER -> cursor_line_scan(e, (s.at - offset) + 1, i + 1)

\* The statements after the loop, for the way s the loop ended, without
\* the test against st_size.
cursor_position_uncapped(e, s) ==
    CASE s.r = "fault" -> [ok |-> FALSE, off |-> 0]
      [] s.r = "eof" -> [ok |-> TRUE, off |-> s.offset]
      [] OTHER -> [ok |-> TRUE,
                   off |-> s.offset + e.page_offset_x + e.cursor_x]

\* The statements after the loop, for the way s the loop ended.
cursor_position(e, s) ==
    CASE s.r = "fault" -> [ok |-> FALSE, off |-> 0]
      [] s.r = "eof" -> [ok |-> TRUE, off |-> s.offset]
      [] s.offset + e.page_offset_x + e.cursor_x >= st_size(e) ->
            [ok |-> TRUE, off |-> st_size(e) - 1]
      [] OTHER -> [ok |-> TRUE,
                   off |-> s.offset + e.page_offset_x + e.cursor_x]

\* qe_get_cursor_byte_position without its final test against st_size.
qe_get_cursor_byte_position_uncapped(e) ==
    cursor_position_uncapped(e, cursor_line_scan(e, e.page_offset, 0))

\* The result: [ok |-> FALSE] when the process died in memchr, else the
\* offset returned.
qe_get_cursor_byte_position(e) ==
    cursor_position(e, cursor_line_scan(e, e.page_offset, 0))

----------------------------------------------------------------------------
(* Initial values. *)

\* The files: every byte sequence of 1 .. MaxSize bytes over a newline and
\* a letter (an empty file cannot be mapped: qe_open fails on it).
Alphabet == {NL, CharA}
BuffersTo(k) == UNION {[1..n -> Alphabet] : n \in 1..k}
Buffers == BuffersTo(MaxSize)

\* "abcdefghij\nklmno\n"
ScenarioLines == <<97, 98, 99, 100, 101, 102, 103, 104, 105, 106, 10,
                   107, 108, 109, 110, 111, 10>>

\* "abcdefabcdef"
ScenarioSearch == <<97, 98, 99, 100, 101, 102, 97, 98, 99, 100, 101, 102>>

\* What is mapped below the file: nothing, or up to MaxUnder bytes of which
\* the one farthest from the file is the only newline (a backward scan for
\* a newline never reads past the first one it meets, and one that meets
\* none ends in the unmapped memory as it does with nothing mapped).
LoMems == {s \in UNION {[1..n -> Alphabet] : n \in 0..MaxUnder} :
              /\ \A i \in 1..(Len(s) - 1) : s[i] # NL
              /\ s # <<>> => s[Len(s)] = NL}

\* What is mapped above the file: nothing (the file ends on a page
\* boundary), or one byte (the code never reads farther than one byte past
\* a mapped byte): the 0 that pads the last page of a mapping, or a
\* newline.
HiMems == {<<>>, <<0>>, <<NL>>}

\* The surroundings of the mapping of an editing session, as <<lo, hi>>:
\* nothing mapped on either side, or memory on one side.
Surroundings ==
    {<<l, <<>>>> : l \in {s \in LoMems : Len(s) \in {0, MaxUnder}}}
        \cup {<<<<>>, h>> : h \in HiMems}

Widths == {2}
Heights == {3}

\* The state qe_init, qe_args, qe_open, qe_init_terminal and the first
\* qe_update_status_buffer leave, for a file p mapped between l and h.
qe_init(p, l, h, ro, w, ht) ==
    [page |-> p, lo |-> l, hi |-> h, read_only |-> ro, wrap |-> FALSE,
     width |-> w, height |-> ht,
     page_offset |-> 0, page_offset_x |-> 0,
     cursor_x |-> 0, cursor_y |-> 0, mode |-> MODE_NORMAL,
     search_buf |-> <<>>, search_len |-> 0,
     dirty |-> TRUE, dirty_cursor |-> FALSE,
     status_buffer |-> <<"file", MODE_NORMAL, 0, 0, 0, Len(p)>>,
     proc |-> "running", tty |-> "raw"]

\* The editor is in state e and has read no key yet.
Starts(e) ==
    /\ page = e.page /\ lo = e.lo /\ hi = e.hi
    /\ read_only = e.read_only /\ wrap = e.wrap
    /\ width = e.width /\ height = e.height
    /\ page_offset = e.page_offset /\ page_offset_x = e.page_offset_x
    /\ cursor_x = e.cursor_x /\ cursor_y = e.cursor_y
    /\ mode = e.mode
    /\ search_buf = e.search_buf /\ search_len = e.search_len
    /\ dirty = e.dirty /\ dirty_cursor = e.dirty_cursor
    /\ status_buffer = e.status_buffer
    /\ proc = e.proc /\ tty = e.tty
    /\ key = -1
    /\ resized = FALSE /\ winsize = <<e.width, e.height>>

InitEditor(p, l, h, ro, w, ht) == Starts(qe_init(p, l, h, ro, w, ht))

\* The editor's variables after a step that leaves the editor in state e.
Assign(e) ==
    /\ page' = e.page /\ lo' = e.lo /\ hi' = e.hi
    /\ read_only' = e.read_only /\ wrap' = e.wrap
    /\ width' = e.width /\ height' = e.height
    /\ page_offset' = e.page_offset /\ page_offset_x' = e.page_offset_x
    /\ cursor_x' = e.cursor_x /\ cursor_y' = e.cursor_y
    /\ mode' = e.mode
    /\ search_buf' = e.search_buf /\ search_len' = e.search_len
    /\ dirty' = e.dirty /\ dirty_cursor' = e.dirty_cursor
    /\ status_buffer' = e.status_buffer
    /\ proc' = e.proc /\ tty' = e.tty
    /\ UNCHANGED <<resized, winsize>>

----------------------------------------------------------------------------
(* qe_search *)

\* Whether the n bytes at offset k equal the first n bytes of the pattern.
MatchAt(e, k, n) == \A j \in 0..(n - 1) : Mem(e, k + j) = e.search_buf[j + 1]

\* memmem's scan of a needle of n >= 1 bytes over the left candidate
\* starts from k on: the first match, -1 without one, "fault" when a
\* candidate leaves the mapped memory first.  left is a size_t.
RECURSIVE memmem_scan(_, _, _, _)
memmem_scan(e, k, left, n) ==
    IF left = 0 THEN [ok |-> TRUE, at |-> -1]
    ELSE IF ~(Mapped(e, k) /\ Mapped(e, k + n - 1))
    THEN [ok |-> FALSE, at |-> -1]
    ELSE IF MatchAt(e, k, n) THEN [ok |-> TRUE, at |-> k]
    ELSE memmem_scan(e, k + 1, left - 1, n)

\* qe_search over the whole file, whatever the offset.
qe_search_whole(e, offset) ==
    LET hlen == st_size(e)
        n == e.search_len
    IN  IF n = 0 THEN [ok |-> TRUE, at |-> 0]
        ELSE IF ULt(hlen, n) THEN [ok |-> TRUE, at |-> -1]
        ELSE IF n < 0 THEN [ok |-> FALSE, at |-> -1]
        ELSE memmem_scan(e, 0, hlen - n + 1, n)

\* memmem(editor.page + offset, st_size - offset, search_buf, search_len):
\* an empty needle is found at the start of the haystack, a needle longer
\* than the haystack is not found.  The result is p - editor.page, or -1.
qe_search(e, offset) ==
    LET hlen == st_size(e) - offset
        n == e.search_len
    IN  IF n = 0 THEN [ok |-> TRUE, at |-> offset]
        ELSE IF ULt(hlen, n) THEN [ok |-> TRUE, at |-> -1]
        ELSE IF n < 0 THEN [ok |-> FALSE, at |-> -1]
        ELSE memmem_scan(e, offset, hlen - n + 1, n)

----------------------------------------------------------------------------
(* qe_move_cursor_x, qe_move_cursor_y.  new_x is the int32_t image of an  *)
(* int64_t sum; new_y is the sum of a uint16_t and an int32_t of size 1.   *)

\* The branch "still in the current view" of a move to the right, for
\* the cursor position pos that qe_get_cursor_byte_position returned.
move_cursor_x_right(e, pos) ==
    IF ~pos.ok THEN Crash(e)
    ELSE IF ~Mapped(e, pos.off + 1) THEN Crash(e)
    ELSE IF IsNL(e, pos.off + 1) THEN e
    ELSE [e EXCEPT !.cursor_x = UInt16(e.cursor_x + 1),
                   !.dirty_cursor = TRUE]

\* The three branches, for new_x.
move_cursor_x_to(e, x, new_x) ==
    IF new_x < 0
    THEN [qe_update_status_buffer(
            [e EXCEPT !.page_offset_x = 0,
                      !.cursor_x = IF e.cursor_x = 0 THEN 0
                                   ELSE UInt16(e.width - 1)])
            EXCEPT !.dirty = TRUE, !.dirty_cursor = TRUE]
    ELSE IF new_x >= e.width
    THEN [qe_update_status_buffer(
            [e EXCEPT !.page_offset_x = new_x - CRem(new_x, e.width),
                      !.cursor_x = UInt16(CRem(new_x, e.width))])
            EXCEPT !.dirty = TRUE, !.dirty_cursor = TRUE]
    ELSE IF x > 0
    THEN move_cursor_x_right(e, qe_get_cursor_byte_position(e))
    ELSE [e EXCEPT !.cursor_x = UInt16(e.cursor_x + x),
                   !.dirty_cursor = TRUE]

\* x is 1 or -1 at every call.
qe_move_cursor_x(e, x) ==
    move_cursor_x_to(e, x, Int32Add(e.page_offset_x + e.cursor_x, x))

\* The statements after the qe_move_window_y call that left state e1.
move_cursor_y_scrolled(e1, cy) ==
    IF e1.proc # "running" THEN e1
    ELSE [e1 EXCEPT !.cursor_y = cy, !.dirty = TRUE, !.dirty_cursor = TRUE]

\* The same without the test of page_offset at the top of the file.
qe_move_cursor_y_unguarded(e, y) ==
    IF e.cursor_y + y < 0
    THEN move_cursor_y_scrolled(
             qe_move_window_y(e, CDiv(-e.height, 2)),
             UInt16(e.height - 2))
    ELSE IF e.cursor_y + y >= e.height - 1
    THEN move_cursor_y_scrolled(qe_move_window_y(e, CDiv(e.height, 2)), 0)
    ELSE [e EXCEPT !.cursor_y = UInt16(e.cursor_y + y),
                   !.dirty_cursor = TRUE]

qe_move_cursor_y(e, y) ==
    IF e.cursor_y + y < 0
    THEN IF e.page_offset = 0 THEN e
         ELSE move_cursor_y_scrolled(
                 qe_move_window_y(e, CDiv(-e.height, 2)),
                 UInt16(e.height - 2))
    ELSE IF e.cursor_y + y >= e.height - 1
    THEN move_cursor_y_scrolled(qe_move_window_y(e, CDiv(e.height, 2)), 0)
    ELSE [e EXCEPT !.cursor_y = UInt16(e.cursor_y + y),
                   !.dirty_cursor = TRUE]

----------------------------------------------------------------------------
(* The terminal, as far as qe_draw writes it: height rows of cells, the    *)
(* cursor at row y (from 1) and column x (from 0).  A row receives at most *)
(* width cells between two moves of the cursor to a next line, so the      *)
(* terminal never wraps a row by itself.                                   *)

\* The cell the status line fills its row with.
StatusCell == -1

\* "\x1b[2J\x1b[H": clear the screen, cursor to the top left.
term_clear(ht) ==
    [rows |-> [r \in 1..ht |-> <<>>], y |-> 1, x |-> 0]

\* putchar(g) at the cursor.
term_put(t, g) ==
    [t EXCEPT !.rows[t.y] = IF t.x < Len(@) THEN [@ EXCEPT ![t.x + 1] = g]
                            ELSE Append(@, g),
              !.x = t.x + 1]

\* "\x1b[E": cursor to the start of the next line; it stays on the last.
term_cnl(t) ==
    [t EXCEPT !.y = IF t.y < Len(t.rows) THEN t.y + 1 ELSE t.y, !.x = 0]

\* print_char: the byte if isprint, else '@'.
Glyph(c) == IF 32 <= c /\ c <= 126 THEN c ELSE 64

----------------------------------------------------------------------------
(* qe_draw_wrap, qe_draw_nowrap, qe_draw.  A layout returns the terminal,  *)
(* the row count y it returns, and ok = FALSE when a read left the mapped  *)
(* memory.                                                                 *)

\* return y
draw_return(t, y) == [t |-> t, y |-> y, ok |-> TRUE]

\* file_end without its "\x1b[E".
draw_file_end_same_row(t, y) == [t |-> t, y |-> y, ok |-> TRUE]

\* file_end: printf("\x1b[E"); return y
draw_file_end(t, y) == [t |-> term_cnl(t), y |-> y, ok |-> TRUE]

draw_fault(t, y) == [t |-> t, y |-> y, ok |-> FALSE]

\* qe_draw_wrap: the loop over y at its top, and the loop over x.
RECURSIVE draw_wrap_row(_, _, _, _)
RECURSIVE draw_wrap_cols(_, _, _, _, _)
draw_wrap_row(e, t, offset, y) ==
    IF y >= e.height - 1 THEN draw_return(t, y)
    ELSE draw_wrap_cols(e, t, offset, y, 0)

draw_wrap_cols(e, t, offset, y, x) ==
    IF x >= e.width - 1 THEN draw_wrap_row(e, term_cnl(t), offset, y + 1)
    ELSE IF ~Mapped(e, offset) THEN draw_fault(t, y)
    ELSE IF offset + 1 >= st_size(e) THEN draw_file_end(t, y)
    ELSE IF IsNL(e, offset)
    THEN draw_wrap_row(e, term_cnl(t), offset + 1, y + 1)
    ELSE draw_wrap_cols(e, term_put(t, Glyph(Mem(e, offset))),
                        offset + 1, y, x + 1)

\* qe_draw_nowrap: the loop over y at its top, the statements after the
\* first memchr returned beg, the loop over x, and the statements after
\* the second memchr returned end ("offset = end - &editor.page[offset]").
RECURSIVE draw_nowrap_row(_, _, _, _)
RECURSIVE draw_nowrap_clip(_, _, _, _, _)
RECURSIVE draw_nowrap_cols(_, _, _, _, _)
RECURSIVE draw_nowrap_tail(_, _, _, _, _)
draw_nowrap_row(e, t, offset, y) ==
    IF y >= e.height - 1 THEN draw_return(t, y)
    ELSE IF offset + e.page_offset_x >= st_size(e) THEN draw_file_end(t, y)
    ELSE draw_nowrap_clip(e, t, offset, y,
                          memchr_nl(e, offset, e.page_offset_x))

draw_nowrap_clip(e, t, offset, y, beg) ==
    CASE beg.r = "fault" -> draw_fault(t, y)
      [] beg.r = "found" -> draw_nowrap_row(e, term_cnl(t), offset, y + 1)
      [] OTHER -> draw_nowrap_cols(e, t, offset + e.page_offset_x, y, 0)

draw_nowrap_cols(e, t, offset, y, x) ==
    IF x >= e.width
    THEN draw_nowrap_tail(e, t, offset, y,
                          memchr_nl(e, offset, st_size(e) - offset))
    ELSE IF ~Mapped(e, offset) THEN draw_fault(t, y)
    ELSE IF offset + 1 >= st_size(e) THEN draw_file_end(t, y)
    ELSE IF IsNL(e, offset)
    THEN draw_nowrap_row(e, term_cnl(t), offset + 1, y + 1)
    ELSE draw_nowrap_cols(e, term_put(t, Glyph(Mem(e, offset))),
                          offset + 1, y, x + 1)

draw_nowrap_tail(e, t, offset, y, end) ==
    CASE end.r = "fault" -> draw_fault(t, y)
      [] end.r = "none" -> draw_file_end(t, y)
      [] OTHER -> draw_nowrap_row(e, term_cnl(t), end.at - offset, y + 1)

qe_draw_wrap(e) == draw_wrap_row(e, term_clear(e.height), e.page_offset, 0)

qe_draw_nowrap(e) ==
    draw_nowrap_row(e, term_clear(e.height), e.page_offset, 0)

\* The end of file markers: for (; y < terminal.height - 1; ++y) "~\x1b[E".
RECURSIVE draw_markers(_, _, _)
draw_markers(t, y, ht) ==
    IF y >= ht - 1 THEN t
    ELSE draw_markers(term_cnl(term_put(t, 126)), y + 1, ht)

\* qe_draw_status: terminal.width cells at the cursor.
RECURSIVE qe_draw_status(_, _)
qe_draw_status(t, n) ==
    IF n <= 0 THEN t ELSE qe_draw_status(term_put(t, StatusCell), n - 1)

\* The rows on the terminal after qe_draw, for the result d of the layout.
draw_rows(e, d) ==
    IF ~d.ok THEN [ok |-> FALSE, rows |-> d.t.rows]
    ELSE [ok |-> TRUE,
          rows |-> qe_draw_status(draw_markers(d.t, d.y, e.height),
                                  e.width).rows]

\* The editor after qe_draw, for the result d of the layout.
draw_done(e, d) ==
    IF ~d.ok THEN Crash(e)
    ELSE [e EXCEPT !.dirty = FALSE, !.dirty_cursor = FALSE]

\* What qe_draw leaves on the terminal.
qe_draw_screen(e) ==
    IF e.wrap THEN draw_rows(e, qe_draw_wrap(e))
    ELSE draw_rows(e, qe_draw_nowrap(e))

qe_draw(e) ==
    IF e.wrap THEN draw_done(e, qe_draw_wrap(e))
    ELSE draw_done(e, qe_draw_nowrap(e))

----------------------------------------------------------------------------
(* qe_process_key.  env holds what the handler cannot decide by itself:    *)
(* msync_fails (msync returns -1), lo_writable (whether the memory below   *)
(* the file mapping accepts a store), big_endian (the byte order of the    *)
(* build, which decides what a store to search_buf[-1] hits).              *)

Envs == [msync_fails : BOOLEAN, lo_writable : BOOLEAN, big_endian : BOOLEAN]

\* tcsetattr(STDIN_FILENO, TCSAFLUSH, &terminal.original_settings)
qe_terminal_cleanup(e) == [e EXCEPT !.tty = "original"]

\* exit(0), which runs qe_terminal_cleanup (atexit).
Exit(e) == [qe_terminal_cleanup(e) EXCEPT !.proc = "exited"]

\* fatal(msg): terminal.raw_mode is set, so qe_terminal_cleanup; the
\* message; exit(1).
fatal(e) == [qe_terminal_cleanup(e) EXCEPT !.proc = "fatal"]

\* case 'i' of MODE_NORMAL without its test of editor.read_only.
normal_key_i_unguarded(e) == [e EXCEPT !.mode = MODE_INSERT]

\* case 'i' of MODE_NORMAL
normal_key_i(e) ==
    IF ~e.read_only THEN [e EXCEPT !.mode = MODE_INSERT] ELSE e

\* case '/' of MODE_NORMAL
normal_key_slash(e) ==
    [e EXCEPT !.mode = MODE_SEARCH,
              !.status_buffer = <<"search", <<>>>>,
              !.search_buf = <<>>, !.search_len = 0,
              !.dirty = TRUE]

\* The navigation cases MODE_NORMAL and MODE_INSERT share.
IsNavKey(c) ==
    c \in {PGDN, CTRL(100), PGUP, CTRL(117), ARROW_DOWN, ARROW_UP,
           ARROW_LEFT, ARROW_RIGHT, CTRL(104), CTRL(108)}

nav_key(e, c) ==
    CASE c \in {PGDN, CTRL(100)} -> qe_move_window_y(e, e.height - 1)
      [] c \in {PGUP, CTRL(117)} -> qe_move_window_y(e, -(e.height - 1))
      [] c = ARROW_DOWN -> qe_move_cursor_y(e, 1)
      [] c = ARROW_UP -> qe_move_cursor_y(e, -1)
      [] c = ARROW_LEFT -> qe_move_cursor_x(e, -1)
      [] c = ARROW_RIGHT -> qe_move_cursor_x(e, 1)
      [] c = CTRL(104) -> qe_move_window_x(e, CDiv(-e.width, 2))
      [] c = CTRL(108) -> qe_move_window_x(e, CDiv(e.width, 2))

\* case MODE_NORMAL ('q' 113, 'i' 105, '/' 47, 'r' 114, 'w' 119, 'j' 106,
\* 'k' 107, 'h' 104, 'l' 108, CTRL('c') 3)
normal_key(e, c) ==
    CASE c \in {113, CTRL(99)} -> Exit(e)
      [] c = 105 -> normal_key_i(e)
      [] c = 47 -> normal_key_slash(e)
      [] c = 114 -> [e EXCEPT !.dirty = TRUE]
      [] c = 119 -> [e EXCEPT !.wrap = ~e.wrap, !.dirty = TRUE]
      [] c = 106 -> qe_move_cursor_y(e, 1)
      [] c = 107 -> qe_move_cursor_y(e, -1)
      [] c = 104 -> qe_move_cursor_x(e, -1)
      [] c = 108 -> qe_move_cursor_x(e, 1)
      [] IsNavKey(c) -> nav_key(e, c)
      [] OTHER -> e

\* editor.page[off] = c
store_byte(e, off, c, env) ==
    IF 0 <= off /\ off < st_size(e)
    THEN [e EXCEPT !.page[off + 1] = Byte(c)]
    ELSE IF off < 0 /\ Mapped(e, off) /\ env.lo_writable
    THEN [e EXCEPT !.lo[-off] = Byte(c)]
    ELSE Crash(e)

\* editor.dirty = 1, the last statement of the default of MODE_INSERT,
\* after the cursor advance that left state e2.
insert_dirty(e2) ==
    IF e2.proc # "running" THEN e2 ELSE [e2 EXCEPT !.dirty = TRUE]

\* The same without the test of msync's result.
insert_stored_unchecked(e1, off, env) ==
    IF e1.proc # "running" THEN e1
    ELSE IF ~Mapped(e1, off + 1) THEN Crash(e1)
    ELSE IF IsNL(e1, off + 1)
    THEN insert_dirty([e1 EXCEPT !.cursor_x = 0,
                                 !.cursor_y = UInt16(e1.cursor_y + 1),
                                 !.dirty_cursor = TRUE])
    ELSE insert_dirty(qe_move_cursor_x(e1, 1))

\* The msync and the cursor advance, after the store at off left state e1.
insert_stored(e1, off, env) ==
    IF e1.proc # "running" THEN e1
    ELSE IF env.msync_fails THEN fatal(e1)
    ELSE IF ~Mapped(e1, off + 1) THEN Crash(e1)
    ELSE IF IsNL(e1, off + 1)
    THEN insert_dirty([e1 EXCEPT !.cursor_x = 0,
                                 !.cursor_y = UInt16(e1.cursor_y + 1),
                                 !.dirty_cursor = TRUE])
    ELSE insert_dirty(qe_move_cursor_x(e1, 1))

\* The store, for the cursor position pos.
insert_at(e, c, env, pos) ==
    IF ~pos.ok THEN Crash(e)
    ELSE insert_stored(store_byte(e, pos.off, c, env), pos.off, env)

\* default of MODE_INSERT: the write, the msync, the cursor advance.
insert_write(e, c, env) ==
    insert_at(e, c, env, qe_get_cursor_byte_position(e))

\* case MODE_INSERT
insert_key(e, c, env) ==
    CASE c = CTRL(99) -> Exit(e)
      [] c = ESC -> [e EXCEPT !.mode = MODE_NORMAL]
      [] IsNavKey(c) -> nav_key(e, c)
      [] OTHER -> insert_write(e, c, env)

\* while (addr > 0 && editor.page[addr] != '\n') addr -= 1;
RECURSIVE search_line_start(_, _)
search_line_start(e, addr) ==
    IF addr <= 0 THEN [ok |-> TRUE, addr |-> addr]
    ELSE IF ~Mapped(e, addr) THEN [ok |-> FALSE, addr |-> addr]
    ELSE IF IsNL(e, addr) THEN [ok |-> TRUE, addr |-> addr]
    ELSE search_line_start(e, addr - 1)

\* The assignments of a hit at actual_addr, for the result ls of the scan
\* to the start of its line.
search_goto(e1, actual_addr, ls) ==
    IF ~ls.ok THEN Crash(e1)
    ELSE IF ls.addr # 0
    THEN [e1 EXCEPT !.page_offset = ls.addr + 1,
                    !.page_offset_x = actual_addr - (ls.addr + 1),
                    !.dirty = TRUE]
    ELSE [e1 EXCEPT !.page_offset = 0,
                    !.page_offset_x = actual_addr,
                    !.dirty = TRUE]

\* The statements after qe_search returned actual_addr.
search_found(e1, actual_addr) ==
    IF ~actual_addr.ok THEN Crash(e1)
    ELSE IF actual_addr.at = -1 THEN e1
    ELSE search_goto(e1, actual_addr.at,
                     search_line_start(e1, actual_addr.at))

\* The search, for the cursor position pos.
search_from(e1, pos) ==
    IF ~pos.ok THEN Crash(e1)
    ELSE search_found(e1, qe_search(e1, pos.off + 1))

\* editor.mode = MODE_NORMAL, then the search.
search_in_normal(e1) == search_from(e1, qe_get_cursor_byte_position(e1))

\* case ENTER of MODE_SEARCH
search_enter(e) == search_in_normal([e EXCEPT !.mode = MODE_NORMAL])

\* The C string at search_buf: the bytes before the first 0 byte.
RECURSIVE CString(_)
CString(b) ==
    IF b = <<>> \/ Head(b) = 0 THEN <<>> ELSE <<Head(b)>> \o CString(Tail(b))

\* default of MODE_SEARCH.  With search_len 0, BACKSPACE leaves search_len
\* at SIZE_MAX and stores a 0 at search_buf[-1], the last byte of
\* editor.mode: its most significant byte, or on a big-endian build its
\* least significant one.
search_echo(e1) ==
    [e1 EXCEPT !.status_buffer = <<"search", CString(e1.search_buf)>>,
               !.dirty = TRUE]

search_default(e, c, env) ==
    IF UGe(e.search_len, SearchBufSize - 1) THEN e
    ELSE IF c # BACKSPACE
    THEN search_echo([e EXCEPT !.search_buf = Append(e.search_buf, Byte(c)),
                               !.search_len = e.search_len + 1])
    ELSE IF e.search_len > 0
    THEN search_echo([e EXCEPT
                        !.search_buf = SubSeq(e.search_buf, 1, e.search_len - 1),
                        !.search_len = e.search_len - 1])
    ELSE search_echo([e EXCEPT
                        !.search_len = e.search_len - 1,
                        !.mode = IF env.big_endian THEN MODE_NORMAL
                                 ELSE e.mode])

\* case MODE_SEARCH
search_key(e, c, env) ==
    CASE c = CTRL(99) -> Exit(e)
      [] c = ESC -> [e EXCEPT !.mode = MODE_NORMAL]
      [] c = ENTER -> search_enter(e)
      [] OTHER -> search_default(e, c, env)

qe_process_key(e, c, env) ==
    CASE e.mode = MODE_NORMAL -> normal_key(e, c)
      [] e.mode = MODE_INSERT -> insert_key(e, c, env)
      [] e.mode = MODE_SEARCH -> search_key(e, c, env)

----------------------------------------------------------------------------
(* main: one iteration of the loop, from its top to its bottom, for the    *)
(* key c that qe_readkey returns.                                          *)

\* The statements after qe_process_key, which left state e2; mode is the
\* mode saved before the call.
main_mode_changed(mode_before, e2) ==
    IF e2.proc # "running" THEN e2
    ELSE IF mode_before # e2.mode /\ e2.mode # MODE_SEARCH
    THEN [qe_update_status_buffer(e2) EXCEPT !.dirty = TRUE]
    ELSE e2

\* qe_readkey returns c, in the state e1 the drawing left.
main_key(e1, c, env) ==
    IF e1.proc # "running" THEN e1
    ELSE main_mode_changed(e1.mode, qe_process_key(e1, c, env))

main_loop(e, c, env) ==
    IF e.dirty
    THEN main_key(qe_draw(e), c, env)
    ELSE main_key([e EXCEPT !.dirty_cursor = FALSE], c, env)

\* The keycodes the model feeds the loop in each mode.  MODE_NORMAL: the
\* navigation keys, 'q', Ctrl-C, 'i', '/', and 0 (a read interrupted by a
\* signal) for its default.  MODE_INSERT: the navigation keys, Ctrl-C, ESC,
\* and for its default 'a' and 10 (Ctrl-J, a newline byte).  MODE_SEARCH:
\* Ctrl-C, ESC, ENTER, BACKSPACE, and for its default 'a' and 10.
NavKeys == {PGUP, PGDN, ARROW_UP, ARROW_DOWN, ARROW_LEFT, ARROW_RIGHT,
            CTRL(104), CTRL(108)}
Keys(m) ==
    CASE m = MODE_NORMAL -> NavKeys \cup {113, CTRL(99), 105, 47, 0}
      [] m = MODE_INSERT -> NavKeys \cup {CTRL(99), ESC, CharA, NL}
      [] m = MODE_SEARCH -> {CTRL(99), ESC, ENTER, BACKSPACE, CharA, NL}

\* The outcomes of the environment that matter to key c in state e.
EnvsOf(e, c) ==
    {env \in Envs :
        /\ env.msync_fails =>
              (e.mode = MODE_INSERT /\ c \notin NavKeys \cup {CTRL(99), ESC})
        /\ env.lo_writable = (e.mode = MODE_INSERT /\ e.page_offset < 0)
        /\ env.big_endian =>
              (e.mode = MODE_SEARCH /\ c = BACKSPACE /\ e.search_len = 0)}

\* The states the model follows: the counters the code lets grow without
\* limit stay within the bounds.
InBounds(e) ==
    /\ e.page_offset_x <= MaxPox
    /\ e.cursor_y <= MaxCy
    /\ e.search_len <= MaxPat

Init ==
    /\ \E p \in BuffersTo(MaxFile), s \in Surroundings, ro \in BOOLEAN,
          w \in Widths, ht \in Heights :
          InitEditor(p, s[1], s[2], ro, w, ht)
    /\ pc = "main" /\ arg = 0 /\ ret = 0

\* The loop handled key c and is in state e at its next top.
Looped(e, c) == InBounds(e) /\ Assign(e) /\ key' = c

KeyStep ==
    /\ pc = "main" /\ proc = "running"
    /\ \E c \in Keys(mode) :
       \E env \in EnvsOf(Editor, c) : Looped(main_loop(Editor, c, env), c)
    /\ UNCHANGED <<pc, arg, ret>>

Next == KeyStep

Spec == Init /\ [][Next]_vars

\* The editing sessions of a file opened read-only (qe -ro).
InitReadOnly ==
    /\ \E p \in BuffersTo(MaxFile), s \in Surroundings,
          w \in Widths, ht \in Heights :
          InitEditor(p, s[1], s[2], TRUE, w, ht)
    /\ pc = "main" /\ arg = 0 /\ ret = 0

SpecReadOnly == InitReadOnly /\ [][Next]_vars

----------------------------------------------------------------------------
(* SpecScroll: qe_move_window_y called directly, any n, from offset 0. *)

InitScroll ==
    /\ \E p \in BuffersTo(MaxSize + 1) \cup {ScenarioLines}, l \in LoMems :
          InitEditor(p, l, <<>>, FALSE, 10, 5)
    /\ pc = "scroll" /\ arg = 0
    /\ ret = [from |-> 0, ran_off |-> FALSE]

\* Whether the scan of qe_move_window_y(n) from po leaves [0, st_size):
\* it returns early at an edge, or reads below the start of the file.
RanOff(e, po, n) ==
    move_window_y_from([e EXCEPT !.lo = <<>>], po, n).exit # "break"

\* One call qe_move_window_y(n); the caller may next undo it.
ScrollByLines ==
    /\ pc = "scroll" /\ proc = "running"
    /\ \E n \in (-MaxN)..MaxN :
          /\ Assign(qe_move_window_y(Editor, n))
          /\ arg' = n
          /\ ret' = [from |-> page_offset,
                     ran_off |-> RanOff(Editor, page_offset, n)]
    /\ pc' \in {"scroll", "back"}
    /\ UNCHANGED key

\* The call qe_move_window_y(-n) after a call qe_move_window_y(n).
ScrollBack ==
    /\ pc = "back" /\ proc = "running"
    /\ Assign(qe_move_window_y(Editor, -arg))
    /\ ret' = [ret EXCEPT
                 !.ran_off = ret.ran_off \/ RanOff(Editor, page_offset, -arg)]
    /\ pc' = "returned"
    /\ UNCHANGED <<key, arg>>

NextScroll == ScrollByLines \/ ScrollBack

SpecScroll == InitScroll /\ [][NextScroll]_vars

\* Offset o is the first byte of a line of the file.
LineStart(e, o) == o = 0 \/ (0 < o /\ o <= st_size(e) /\ e.page[o] = NL)

\* The number of newline bytes at offsets from .. to-1.
NewlinesIn(e, from, to) ==
    Cardinality({i \in from..(to - 1) : e.page[i + 1] = NL})

\* The offset just past the n-th newline at or after offset from.
PastNewlines(e, from, n) ==
    CHOOSE o \in (from + 1)..st_size(e) :
        /\ e.page[o] = NL
        /\ NewlinesIn(e, from, o) = n

\* C1: qe_move_window_y(n) followed by qe_move_window_y(-n) restores every
\* line-aligned page_offset, for every n (0 and empty lines included), when
\* neither call ran off the start or the end of the file.
C1_RoundTrip ==
    (/\ pc = "returned" /\ proc = "running"
     /\ LineStart(Editor, ret.from) /\ ~ret.ran_off)
        => page_offset = ret.from

\* C2: after any sequence of qe_move_window_y calls from page_offset 0,
\* page_offset is 0 or one past a newline byte.
C2_LineStart == proc = "running" => LineStart(Editor, page_offset)

\* C3: for n > 0 and a line-aligned page_offset with at least n newlines at
\* or after it, qe_move_window_y(n) leaves page_offset just past the n-th
\* of them (11 for n = 1 from 0 over "abcdefghij\nklmno\n").
C3_ForwardPastN ==
    [][\A n \in 1..MaxN :
          (/\ ScrollByLines /\ arg' = n
           /\ LineStart(Editor, page_offset)
           /\ page_offset < st_size(Editor)
           /\ NewlinesIn(Editor, page_offset, st_size(Editor)) >= n)
          => page_offset' = PastNewlines(Editor, page_offset, n)]_vars

----------------------------------------------------------------------------
(* SpecCursor: qe_get_cursor_byte_position called directly, for every      *)
(* viewport and cursor within the documented ranges.                       *)

InitCursor ==
    /\ \E p \in Buffers :
       \E po \in 0..(Len(p) - 1), pox \in 0..MaxPox,
          cx \in 0..(ViewWidth - 1), cy \in 0..(ViewHeight - 2) :
          Starts([qe_init(p, <<>>, <<>>, FALSE, ViewWidth, ViewHeight)
                    EXCEPT !.page_offset = po, !.page_offset_x = pox,
                           !.cursor_x = cx, !.cursor_y = cy])
    /\ pc = "cursor" /\ arg = 0
    /\ ret = [ok |-> TRUE, off |-> 0]

\* One call qe_get_cursor_byte_position().
CursorByteOffset ==
    /\ pc = "cursor" /\ proc = "running"
    /\ ret' = qe_get_cursor_byte_position(Editor)
    /\ pc' = "returned"
    /\ UNCHANGED <<page, lo, hi, read_only, wrap, width, height, page_offset,
                   page_offset_x, cursor_x, cursor_y, mode, search_buf,
                   search_len, dirty, dirty_cursor, status_buffer, proc, key,
                   arg, resized, winsize,
                   tty>>

NextCursor == CursorByteOffset

SpecCursor == InitCursor /\ [][NextCursor]_vars

\* C4: for page_offset in [0, size-1], page_offset_x >= 0, cursor_x in
\* [0, width) and cursor_y in [0, height-2], the offset returned lies in
\* [0, size-1].
C4_OffsetInFile ==
    pc = "returned" =>
        /\ ret.ok
        /\ 0 <= ret.off /\ ret.off <= st_size(Editor) - 1

\* A call on a row below the first whose column lies past the end of the
\* file: the offset returned is the last byte's.
C4_Witness ==
    /\ pc = "returned" /\ ret.ok
    /\ cursor_y > 0 /\ page_offset > 0
    /\ page_offset + page_offset_x + cursor_x >= st_size(Editor)
    /\ ret.off = st_size(Editor) - 1

\* The absolute offset of the first byte of row cursor_y: page_offset for
\* row 0, else the byte after the cursor_y-th newline at or after
\* page_offset; -1 when fewer newlines follow.
RowStart(e) ==
    IF e.cursor_y = 0 THEN e.page_offset
    ELSE IF NewlinesIn(e, e.page_offset, st_size(e)) < e.cursor_y THEN -1
    ELSE PastNewlines(e, e.page_offset, e.cursor_y)

\* C5: the offset returned is min(size-1, L + page_offset_x + cursor_x) for
\* L the absolute offset of the first byte of row cursor_y, and size-1 when
\* the file has no such row; for every row and every page_offset.
C5_AbsoluteOffset ==
    pc = "returned" =>
        LET L == RowStart(Editor)
            o == L + page_offset_x + cursor_x
            last == st_size(Editor) - 1
        IN  /\ ret.ok
            /\ ret.off = IF L = -1 \/ o > last THEN last ELSE o

----------------------------------------------------------------------------
(* SpecSearch: qe_search called directly, for every file, every offset of  *)
(* the file or its end (the caller passes a cursor offset plus one) and    *)
(* every non-empty pattern.                                                *)

\* "def"
ScenarioPattern == <<100, 101, 102>>

Needles ==
    UNION {[1..n -> Alphabet] : n \in 1..MaxNeedle} \cup {ScenarioPattern}

InitSearch ==
    /\ \E p \in Buffers \cup {ScenarioSearch}, sb \in Needles :
          Starts([qe_init(p, <<>>, <<>>, FALSE, 10, 5)
                    EXCEPT !.mode = MODE_SEARCH,
                           !.search_buf = sb, !.search_len = Len(sb)])
    /\ pc = "search" /\ arg = 0
    /\ ret = [ok |-> TRUE, at |-> -1]

\* One call qe_search(offset).
Search ==
    /\ pc = "search" /\ proc = "running"
    /\ \E offset \in 0..st_size(Editor) :
          /\ arg' = offset
          /\ ret' = qe_search(Editor, offset)
    /\ pc' = "returned"
    /\ UNCHANGED <<page, lo, hi, read_only, wrap, width, height, page_offset,
                   page_offset_x, cursor_x, cursor_y, mode, search_buf,
                   search_len, dirty, dirty_cursor, status_buffer, proc, key,
                   resized, winsize,
                   tty>>

NextSearch == Search

SpecSearch == InitSearch /\ [][NextSearch]_vars

\* The offsets k >= from of the file at which the pattern occurs wholly
\* inside the file.
Occurrences(e, from) ==
    {k \in 0..(st_size(e) - 1) :
        /\ from <= k /\ k + e.search_len <= st_size(e)
        /\ \A j \in 1..e.search_len : e.page[k + j] = e.search_buf[j]}

\* C8: for a non-empty pattern, qe_search(from) returns the smallest offset
\* k >= from at which the pattern occurs, and -1 when from >= size or the
\* pattern does not occur in [from, size).
C8_FirstOccurrence ==
    pc = "returned" =>
        LET occ == Occurrences(Editor, arg)
        IN  /\ ret.ok
            /\ ret.at = IF occ = {} THEN -1
                        ELSE CHOOSE k \in occ : \A m \in occ : k <= m

\* "def" over "abcdefabcdef" from offset 4: the occurrence at 9, not the
\* one at 3.
C8_Witness ==
    /\ pc = "returned"
    /\ page = ScenarioSearch /\ search_buf = ScenarioPattern
    /\ arg = 4 /\ ret.ok /\ ret.at = 9

----------------------------------------------------------------------------
(* Claims about the editing session (Spec). *)

\* The step (of the loop: Spec has no other) handles key c typed in mode m.
Typed(m, c) == pc = "main" /\ proc = "running" /\ mode = m /\ key' = c

\* It does, and leaves the process running.
Handled(m, c) == Typed(m, c) /\ proc' = "running"

\* C6: an Insert-mode write of a byte changes the buffer at the offset
\* qe_get_cursor_byte_position() gave before the key, and nowhere else; the
\* size of the buffer does not change.
C6_WriteOneByte ==
    [][\A c \in {CharA, NL} :
          Handled(MODE_INSERT, c) =>
              LET o == qe_get_cursor_byte_position(Editor).off
              IN  /\ 0 <= o /\ o < Len(page)
                  /\ page' = [page EXCEPT ![o + 1] = c]]_vars

\* C7: with a read-only buffer the mode is never Insert and the buffer
\* never changes.
C7_ReadOnly ==
    /\ [](read_only => mode # MODE_INSERT)
    /\ [][read_only => page' = page]_vars

\* 'i' was typed in Normal mode over a read-only buffer.
C7_Witness ==
    /\ read_only /\ proc = "running"
    /\ key = 105 /\ mode = MODE_NORMAL

\* C9: Enter in Search mode with an empty pattern leaves page_offset and
\* page_offset_x unchanged (the search reports not-found).
C9_EmptyPattern ==
    [][(Handled(MODE_SEARCH, ENTER) /\ search_len = 0)
          => /\ page_offset' = page_offset
             /\ page_offset_x' = page_offset_x]_vars

\* C10: Enter in Search mode with a pattern that does not occur in
\* [cursor offset + 1, size) sets the mode to Normal and leaves
\* page_offset, page_offset_x, cursor_x, cursor_y and the buffer unchanged.
C10_NoHitNoChange ==
    [][(/\ Typed(MODE_SEARCH, ENTER)
        /\ search_len >= 0
        /\ qe_get_cursor_byte_position(Editor).ok
        /\ Occurrences(Editor, qe_get_cursor_byte_position(Editor).off + 1)
              = {})
          => /\ proc' = "running" /\ mode' = MODE_NORMAL
             /\ page_offset' = page_offset
             /\ page_offset_x' = page_offset_x
             /\ cursor_x' = cursor_x /\ cursor_y' = cursor_y
             /\ page' = page]_vars

\* The first offset of the line of the file that holds offset m: 0, or one
\* past the last newline before m.
LineStartOf(e, m) ==
    IF \E k \in 0..(m - 1) : e.page[k + 1] = NL
    THEN 1 + CHOOSE k \in 0..(m - 1) :
                /\ e.page[k + 1] = NL
                /\ \A j \in (k + 1)..(m - 1) : e.page[j + 1] # NL
    ELSE 0

\* C11: Enter in Search mode with a hit at offset m: m is past the cursor
\* offset, the new page_offset is the start of the line that holds byte m,
\* and the new page_offset_x is m - page_offset, which is >= 0; also when
\* the first line is empty or the match begins at a newline byte.
C11_HitLineStart ==
    [][(/\ Typed(MODE_SEARCH, ENTER)
        /\ search_len > 0 /\ page_offset >= 0
        /\ qe_search(Editor, qe_get_cursor_byte_position(Editor).off + 1).at
              # -1)
          => LET off == qe_get_cursor_byte_position(Editor).off
                 m == qe_search(Editor, off + 1).at
             IN  /\ proc' = "running"
                 /\ m > off
                 /\ page_offset' = LineStartOf(Editor, m)
                 /\ page_offset_x' = m - page_offset'
                 /\ page_offset_x' >= 0]_vars

\* C12: in every state of an editing session, 0 <= page_offset <= size-1;
\* page_offset never equals the size after a forward scroll.
C12_PageOffsetInFile ==
    proc = "running" =>
        (0 <= page_offset /\ page_offset <= st_size(Editor) - 1)

\* C13: in every state of an editing session, 0 <= cursor_x < width.
C13_CursorXInView ==
    proc = "running" => (0 <= cursor_x /\ cursor_x < width)

\* C14: in every state of an editing session, 0 <= cursor_y <= height-2.
C14_CursorYInView ==
    proc = "running" => (0 <= cursor_y /\ cursor_y <= height - 2)

\* C15: in every state of an editing session, page_offset_x >= 0; also
\* after a search hit whose pattern holds a newline byte.
C15_PageOffsetXNotNegative == proc = "running" => page_offset_x >= 0

\* C16: every index of editor.page that an operation reads or writes lies
\* in [0, size).  With nothing mapped below or above the file an access
\* outside [0, size) ends the process, so such a session never crashes.
C16_AccessInFile == (lo = <<>> /\ hi = <<>>) => proc # "crashed"

\* The mode transitions of the specification: from mode m to mode n on
\* key c.
ModeTransition(m, c, n) ==
    \/ m = MODE_NORMAL /\ c = 105 /\ n = MODE_INSERT /\ ~read_only
    \/ m = MODE_NORMAL /\ c = 47 /\ n = MODE_SEARCH
    \/ m = MODE_INSERT /\ c = ESC /\ n = MODE_NORMAL
    \/ m = MODE_SEARCH /\ c \in {ESC, ENTER} /\ n = MODE_NORMAL

\* C17: the mode starts as Normal; it changes only by the transitions
\* above, no other key changes it; Ctrl-C ends the process in every mode.
C17_ModeMachine ==
    /\ mode = MODE_NORMAL
    /\ [][(pc = "main" /\ proc = "running") =>
             /\ mode' # mode => ModeTransition(mode, key', mode')
             /\ key' = CTRL(99) => proc' = "exited"]_vars

\* The offset qe_get_cursor_byte_position() returns in the state after the
\* step.
CursorOffsetAfter ==
    qe_get_cursor_byte_position(
        [Editor EXCEPT !.page_offset = page_offset',
                       !.page_offset_x = page_offset_x',
                       !.cursor_x = cursor_x', !.cursor_y = cursor_y']).off

\* C18: a move of the cursor one column to the right that stays inside the
\* view is refused (cursor_x and page_offset_x unchanged) when the byte
\* after the cursor's byte is a newline, and never takes the cursor offset
\* past the newline that ends the cursor's line.
C18_RightStopsAtNewline ==
    [][(/\ \E m \in {MODE_NORMAL, MODE_INSERT} : Handled(m, ARROW_RIGHT)
        /\ page_offset_x + cursor_x + 1 < width
        /\ 0 <= page_offset /\ page_offset < Len(page))
          => LET off == qe_get_cursor_byte_position(Editor).off
             IN  /\ (off + 1 < Len(page) /\ page[off + 2] = NL)
                       => (cursor_x' = cursor_x
                           /\ page_offset_x' = page_offset_x)
                 /\ \A E \in off..(Len(page) - 1) :
                       page[E + 1] = NL => CursorOffsetAfter <= E]_vars

----------------------------------------------------------------------------
(* SpecDraw: qe_draw called once, for every small buffer of newlines,      *)
(* printable and unprintable bytes and for the two lines of ScenarioLines, *)
(* in both layouts.                                                        *)

MaxDraw == 4

\* A byte that is not isprint.
CharCtl == 1

DrawBuffers ==
    UNION {[1..n -> {NL, CharA, CharCtl}] : n \in 1..MaxDraw}
        \cup {ScenarioLines}

InitDraw ==
    /\ \E p \in DrawBuffers :
       \E w \in 2..ViewWidth, ht \in 3..ViewHeight, wr \in BOOLEAN,
          po \in 0..(Len(p) - 1), pox \in 0..MaxPox :
          Starts([qe_init(p, <<>>, <<>>, FALSE, w, ht)
                    EXCEPT !.wrap = wr, !.page_offset = po,
                           !.page_offset_x = pox])
    /\ pc = "draw" /\ arg = 0
    /\ ret = [ok |-> TRUE, rows |-> <<>>]

\* One call qe_draw().
Draw ==
    /\ pc = "draw" /\ proc = "running"
    /\ ret' = qe_draw_screen(Editor)
    /\ Assign(qe_draw(Editor))
    /\ pc' = "drawn"
    /\ UNCHANGED <<key, arg>>

NextDraw == Draw

SpecDraw == InitDraw /\ [][NextDraw]_vars

\* The cells that show bytes [from, from + n) of the page.
Shown(from, n) == [i \in 1..n |-> Glyph(page[from + i])]

\* The buffer is one line without a newline, longer than the terminal is
\* wide, drawn unwrapped from its first byte.
LongLine ==
    /\ ~wrap /\ page_offset = 0 /\ page_offset_x = 0
    /\ \A k \in 1..Len(page) : page[k] # NL
    /\ Len(page) > width

\* C19: unwrapped, from page_offset = 0 and page_offset_x = 0, a buffer that
\* is one line without a newline and longer than width shows its first width
\* bytes on row 0 and the end of file marker on each of rows 1 .. height-2.
C19_LongLineNoWrap ==
    (pc = "drawn" /\ LongLine) =>
        /\ ret.ok
        /\ ret.rows[1] = Shown(0, width)
        /\ \A r \in 1..(height - 2) : ret.rows[r + 1] = <<126>>

\* Such a line holding an unprintable byte, on a terminal with two rows
\* below the first.
C19_Witness ==
    /\ pc = "drawn" /\ LongLine /\ ret.ok
    /\ height = 4 /\ page[1] = CharCtl
    /\ ret.rows[1] = Shown(0, width)
    /\ ret.rows[2] = <<126>> /\ ret.rows[3] = <<126>>

----------------------------------------------------------------------------
(* SpecResize: the loop of main statement by statement, with SIGWINCH      *)
(* delivered between any two of them.  pc is the loop's position: "top"    *)
(* (the test of terminal.resized), "ioctl" and "winsize" (in qe_winsize,   *)
(* before and after the ioctl; arg is its local w), "cursor" and "dirty"   *)
(* (the tests of the two flags), "draw" (in qe_draw), "readkey" (in        *)
(* qe_readkey, outside read), "read" (waiting in read) and "key"           *)
(* (qe_readkey returned key).  ret is the size the last qe_draw drew with. *)

\* The window sizes the terminal changes between.
ResizeSizes == {<<w, ht>> : w \in 2..ViewWidth, ht \in 3..ViewHeight}

\* The keys typed: ArrowRight, 'i', ESC.
ResizeKeys == {ARROW_RIGHT, 105, ESC}

InitResize ==
    /\ \E sz \in ResizeSizes :
          InitEditor(<<CharA, CharA, NL>>, <<>>, <<>>, FALSE, sz[1], sz[2])
    /\ pc = "top" /\ arg = <<0, 0>> /\ ret = <<0, 0>>

\* qe_winsize_sighandler, after the window took another size; a read it
\* arrives in fails with EINTR, and qe_readkey returns 0.
Signal ==
    /\ proc = "running"
    /\ \E sz \in ResizeSizes \ {winsize} : winsize' = sz
    /\ resized' = TRUE
    /\ dirty' = TRUE
    /\ IF pc = "read" THEN pc' = "key" /\ key' = 0 ELSE UNCHANGED <<pc, key>>
    /\ UNCHANGED <<page, lo, hi, read_only, wrap, width, height, page_offset,
                   page_offset_x, cursor_x, cursor_y, mode, search_buf,
                   search_len, dirty_cursor, status_buffer, proc, arg, ret,
                   tty>>

\* if (terminal.resized)
CheckResized ==
    /\ pc = "top" /\ proc = "running"
    /\ pc' = IF resized THEN "ioctl" ELSE "cursor"
    /\ UNCHANGED <<page, lo, hi, read_only, wrap, width, height, page_offset,
                   page_offset_x, cursor_x, cursor_y, mode, search_buf,
                   search_len, dirty, dirty_cursor, status_buffer, proc, key,
                   arg, ret, resized, winsize,
                   tty>>

\* qe_winsize: ioctl(STDOUT_FILENO, TIOCGWINSZ, &w)
WinsizeIoctl ==
    /\ pc = "ioctl" /\ proc = "running"
    /\ arg' = winsize
    /\ pc' = "winsize"
    /\ UNCHANGED <<page, lo, hi, read_only, wrap, width, height, page_offset,
                   page_offset_x, cursor_x, cursor_y, mode, search_buf,
                   search_len, dirty, dirty_cursor, status_buffer, proc, key,
                   ret, resized, winsize,
                   tty>>

\* qe_winsize: the three assignments after the ioctl.
WinsizeStore ==
    /\ pc = "winsize" /\ proc = "running"
    /\ width' = arg[1] /\ height' = arg[2]
    /\ resized' = FALSE
    /\ pc' = "cursor"
    /\ UNCHANGED <<page, lo, hi, read_only, wrap, page_offset,
                   page_offset_x, cursor_x, cursor_y, mode, search_buf,
                   search_len, dirty, dirty_cursor, status_buffer, proc, key,
                   arg, ret, winsize,
                   tty>>

\* if (editor.dirty_cursor) qe_draw_cursor();
CheckCursor ==
    /\ pc = "cursor" /\ proc = "running"
    /\ dirty_cursor' = FALSE
    /\ pc' = "dirty"
    /\ UNCHANGED <<page, lo, hi, read_only, wrap, width, height, page_offset,
                   page_offset_x, cursor_x, cursor_y, mode, search_buf,
                   search_len, dirty, status_buffer, proc, key,
                   arg, ret, resized, winsize,
                   tty>>

\* if (editor.dirty)
CheckDirty ==
    /\ pc = "dirty" /\ proc = "running"
    /\ pc' = IF dirty THEN "draw" ELSE "readkey"
    /\ UNCHANGED <<page, lo, hi, read_only, wrap, width, height, page_offset,
                   page_offset_x, cursor_x, cursor_y, mode, search_buf,
                   search_len, dirty, dirty_cursor, status_buffer, proc, key,
                   arg, ret, resized, winsize,
                   tty>>

\* qe_draw, to its last statement editor.dirty = 0.
DrawEnd ==
    /\ pc = "draw" /\ proc = "running"
    /\ Assign(qe_draw(Editor))
    /\ ret' = <<width, height>>
    /\ pc' = "readkey"
    /\ UNCHANGED <<key, arg>>

\* qe_readkey: the call read(STDIN_FILENO, &c, 1).
EnterRead ==
    /\ pc = "readkey" /\ proc = "running"
    /\ pc' = "read"
    /\ UNCHANGED <<page, lo, hi, read_only, wrap, width, height, page_offset,
                   page_offset_x, cursor_x, cursor_y, mode, search_buf,
                   search_len, dirty, dirty_cursor, status_buffer, proc, key,
                   arg, ret, resized, winsize,
                   tty>>

\* read returned 0 after VTIME: sched_yield(), and read again.
ReadTimeout ==
    /\ pc = "read" /\ proc = "running"
    /\ pc' = "readkey"
    /\ UNCHANGED <<page, lo, hi, read_only, wrap, width, height, page_offset,
                   page_offset_x, cursor_x, cursor_y, mode, search_buf,
                   search_len, dirty, dirty_cursor, status_buffer, proc, key,
                   arg, ret, resized, winsize,
                   tty>>

\* read returned a byte, and qe_readkey the key typed.
ReadKey ==
    /\ pc = "read" /\ proc = "running"
    /\ \E c \in ResizeKeys : key' = c
    /\ pc' = "key"
    /\ UNCHANGED <<page, lo, hi, read_only, wrap, width, height, page_offset,
                   page_offset_x, cursor_x, cursor_y, mode, search_buf,
                   search_len, dirty, dirty_cursor, status_buffer, proc,
                   arg, ret, resized, winsize,
                   tty>>

\* qe_process_key(c) and the statements of the loop after it.
ProcessKey ==
    /\ pc = "key" /\ proc = "running"
    /\ \E env \in EnvsOf(Editor, key) :
          Looped(main_key(Editor, key, env), key)
    /\ pc' = "top"
    /\ UNCHANGED <<arg, ret>>

NextResize ==
    \/ Signal
    \/ CheckResized
    \/ WinsizeIoctl
    \/ WinsizeStore
    \/ CheckCursor
    \/ CheckDirty
    \/ DrawEnd
    \/ EnterRead
    \/ ReadTimeout
    \/ ReadKey
    \/ ProcessKey

SpecResize == InitResize /\ [][NextResize]_vars

\* C20: whenever the loop waits in the read, the resized and the dirty flag
\* are clear, terminal.width and terminal.height are the window's size, and
\* the last full draw was made with that size, wherever in the loop the
\* resize notifications arrived.
C20_ResizeBeforeRead ==
    (pc = "read" /\ proc = "running") =>
        /\ ~resized /\ ~dirty
        /\ <<width, height>> = winsize
        /\ ret = winsize

----------------------------------------------------------------------------
(* Claims on the editing sessions, continued. *)

\* The keys of Keys(MODE_INSERT) that its default case writes.
WriteKeys == Keys(MODE_INSERT) \ (NavKeys \cup {CTRL(99), ESC})

\* The loop is at its top in mode m, about to read a key.
AtKey(m) == pc = "main" /\ proc = "running" /\ mode = m

\* State e2 of a process that fatal ended from the present state: the
\* terminal has its original settings, cursor and viewport are untouched.
EndedFatal(e2) ==
    /\ e2.proc = "fatal" /\ e2.tty = "original"
    /\ e2.cursor_x = cursor_x /\ e2.cursor_y = cursor_y
    /\ e2.page_offset = page_offset /\ e2.page_offset_x = page_offset_x

\* C21: a write in Insert mode whose msync fails ends the process through
\* fatal, with the terminal restored and neither cursor nor viewport
\* updated (unless the process died of a bad access before the msync), and
\* a process that ended takes no further step.
C21_SyncFailureFatal ==
    /\ [](AtKey(MODE_INSERT) =>
            \A c \in WriteKeys : \A env \in EnvsOf(Editor, c) :
                env.msync_fails =>
                    \/ EndedFatal(main_loop(Editor, c, env))
                    \/ main_loop(Editor, c, env).proc = "crashed")
    /\ [][proc = "running"]_vars

\* A write whose msync failed.
C21_Witness ==
    /\ proc = "fatal" /\ tty = "original" /\ mode = MODE_INSERT
    /\ key = CharA /\ page[1] = CharA

\* C22: PageDown and PageUp, in Normal and in Insert mode, leave the status
\* line recomputed for the new page_offset and the dirty flag set, also
\* when the scan ran off an end of the file and page_offset was clamped.
C22_ScrollMarksDirty ==
    [][(\E m \in {MODE_NORMAL, MODE_INSERT} :
            Handled(m, PGDN) \/ Handled(m, PGUP))
       => /\ dirty'
          /\ status_buffer' =
                qe_update_status_buffer(
                    [Editor EXCEPT !.page_offset = page_offset']).status_buffer
      ]_vars

----------------------------------------------------------------------------
(* SpecNoKey: the editing sessions in which qe_readkey returns 0 (a read   *)
(* that a signal interrupted) and the keycodes HOME, END and DEL, in each  *)
(* mode, besides the keys that change the mode.                            *)

NoKeys(m) ==
    CASE m = MODE_NORMAL -> {105, 47, 0, HOME, END, DEL}
      [] m = MODE_INSERT -> {ESC, 0, HOME, END, DEL}
      [] m = MODE_SEARCH -> {ESC, CharA, 0, HOME, END, DEL}

NoKeyStep ==
    /\ pc = "main" /\ proc = "running"
    /\ \E c \in NoKeys(mode) :
       \E env \in EnvsOf(Editor, c) : Looped(main_loop(Editor, c, env), c)
    /\ UNCHANGED <<pc, arg, ret>>

NextNoKey == NoKeyStep

SpecNoKey == Init /\ [][NextNoKey]_vars

\* C23: handling the key 0 of an interrupted read changes neither the
\* buffer, the viewport, the cursor, the mode nor the search pattern, in any
\* mode; handling HOME, END or DEL never changes the buffer.
C23_NoKeyNoOp ==
    [][/\ (\E m \in {MODE_NORMAL, MODE_INSERT, MODE_SEARCH} : Handled(m, 0))
          => UNCHANGED <<page, lo, hi, page_offset, page_offset_x, cursor_x,
                         cursor_y, mode, search_buf, search_len>>
       /\ (\E m \in {MODE_NORMAL, MODE_INSERT, MODE_SEARCH} :
           \E c \in {HOME, END, DEL} : Handled(m, c))
          => UNCHANGED <<page, lo, hi>>
      ]_vars

----------------------------------------------------------------------------
(* SpecInsert: the sessions that type into files of up to MaxInsert bytes  *)
(* on the larger terminal: 'i', then ArrowDown, ArrowRight and the bytes   *)
(* 'a' and newline.                                                        *)

MaxInsert == 4

InsertKeys(m) ==
    CASE m = MODE_NORMAL -> {105}
      [] m = MODE_INSERT -> {ARROW_DOWN, ARROW_RIGHT, CharA, NL}
      [] m = MODE_SEARCH -> {}

InitInsert ==
    /\ \E p \in BuffersTo(MaxInsert), h \in HiMems :
          InitEditor(p, <<>>, h, FALSE, ViewWidth, ViewHeight)
    /\ pc = "main" /\ arg = 0 /\ ret = 0

InsertStep ==
    /\ pc = "main" /\ proc = "running"
    /\ \E c \in InsertKeys(mode) :
       \E env \in EnvsOf(Editor, c) : Looped(main_loop(Editor, c, env), c)
    /\ UNCHANGED <<pc, arg, ret>>

NextInsert == InsertStep

SpecInsert == InitInsert /\ [][NextInsert]_vars

\* qe_get_cursor_byte_position() in the state a step leaves.
CursorOffsetNext ==
    qe_get_cursor_byte_position(
        [Editor EXCEPT !.page = page', !.lo = lo', !.hi = hi',
                       !.page_offset = page_offset',
                       !.page_offset_x = page_offset_x',
                       !.cursor_x = cursor_x', !.cursor_y = cursor_y']).off

\* The offset o the cursor designates lies in the file and is not its last.
WritesBeforeLast(o) == 0 <= o /\ o + 1 < Len(page)

\* C24: after a write in Insert mode at offset o with o+1 < size, the cursor
\* designates o+1 when the byte at o+1 is no newline; when it is one, the
\* cursor is at column 0 of the next row, and designates o+2 if that lies in
\* the file and page_offset_x = 0.
C24_WriteAdvances ==
    [][(/\ \E c \in WriteKeys : Handled(MODE_INSERT, c)
        /\ WritesBeforeLast(qe_get_cursor_byte_position(Editor).off))
       => LET o == qe_get_cursor_byte_position(Editor).off
          IN  IF page[o + 2] # NL
              THEN CursorOffsetNext = o + 1
              ELSE /\ cursor_x' = 0 /\ cursor_y' = cursor_y + 1
                   /\ (o + 2 < Len(page) /\ page_offset_x = 0)
                         => CursorOffsetNext = o + 2
      ]_vars

----------------------------------------------------------------------------
(* SpecPattern: Search mode with a pattern of 0 .. 63 bytes typed so far,  *)
(* and up to MaxTyped further keys: a printable byte, an unprintable one,  *)
(* Backspace, and the keycode HOME.  arg counts the keys.                  *)

MaxTyped == 2

PatternKeys == {CharA, CharCtl, BACKSPACE, HOME}

\* The editor after '/' and n keys 'a'.
Searching(n) ==
    [qe_init(<<CharA, NL>>, <<>>, <<>>, FALSE, ViewWidth, ViewHeight)
        EXCEPT !.mode = MODE_SEARCH,
               !.search_buf = [i \in 1..n |-> CharA],
               !.search_len = n,
               !.status_buffer = <<"search", [i \in 1..n |-> CharA]>>]

InitPattern ==
    /\ \E n \in 0..(SearchBufSize - 1) : Starts(Searching(n))
    /\ pc = "main" /\ arg = 0 /\ ret = 0

PatternStep ==
    /\ pc = "main" /\ proc = "running" /\ mode = MODE_SEARCH
    /\ arg < MaxTyped
    /\ \E c \in PatternKeys :
       \E env \in EnvsOf(Editor, c) :
          Assign(main_loop(Editor, c, env)) /\ key' = c
    /\ arg' = arg + 1
    /\ UNCHANGED <<pc, ret>>

NextPattern == PatternStep

SpecPattern == InitPattern /\ [][NextPattern]_vars

\* C25: the pattern length, an unsigned integer, is at most 63 in every
\* state, whatever was typed in Search mode, Backspace on the empty pattern
\* included.
C25_PatternLength == ~ULt(SearchBufSize - 1, search_len)

\* A byte is isprint.
Printable(c) == 32 <= c /\ c <= 126

\* C26: in Search mode a printable byte typed at a length below 63 is
\* appended, Backspace at a length in 1..63 removes the last byte, every
\* other key leaves the pattern alone, and the status line then shows the
\* pattern.
C26_PatternEdit ==
    [][(\E c \in PatternKeys : Handled(MODE_SEARCH, c))
       => /\ IF Printable(key') /\ search_len < SearchBufSize - 1
             THEN search_buf' = Append(search_buf, key')
             ELSE IF key' = BACKSPACE /\ search_len \in 1..(SearchBufSize - 1)
             THEN search_buf' = SubSeq(search_buf, 1, search_len - 1)
             ELSE search_buf' = search_buf
          /\ search_len' = Len(search_buf')
          /\ status_buffer' = <<"search", search_buf'>>
      ]_vars

----------------------------------------------------------------------------
(* Claims on the renderer (SpecDraw), continued. *)

\* The offset of the first newline at or after from, or the file's size.
RECURSIVE LineEnd(_)
LineEnd(from) ==
    IF from >= Len(page) \/ page[from + 1] = NL THEN from
    ELSE LineEnd(from + 1)

\* The offset at which the r-th line counted from offset from starts; the
\* file's size when there is no such line.
RECURSIVE NthLineStart(_, _)
NthLineStart(from, r) ==
    IF r = 0 \/ from >= Len(page) THEN from
    ELSE IF LineEnd(from) >= Len(page) THEN Len(page)
    ELSE NthLineStart(LineEnd(from) + 1, r - 1)

\* Bytes [page_offset_x, page_offset_x + width) of the line that starts at
\* offset from, as cells.
ClippedLine(from) ==
    LET n == LineEnd(from) - (from + page_offset_x)
    IN  IF n <= 0 THEN <<>>
        ELSE Shown(from + page_offset_x, IF n < width THEN n ELSE width)

\* C27: unwrapped, each row r in 0 .. height-2 for which the file has an
\* r-th line counted from page_offset shows bytes [page_offset_x,
\* page_offset_x + width) of that line, without its newline, whatever the
\* lengths of the lines before it.
C27_NoWrapRows ==
    (pc = "drawn" /\ ~wrap) =>
        /\ ret.ok
        /\ \A r \in 0..(height - 2) :
              NthLineStart(page_offset, r) < Len(page)
                 => ret.rows[r + 1] = ClippedLine(NthLineStart(page_offset, r))

\* The number of lines of the file: its newlines, and the bytes after the
\* last one if there are any.
LineCount ==
    Cardinality({k \in 1..Len(page) : page[k] = NL})
        + (IF page[Len(page)] = NL THEN 0 ELSE 1)

\* The whole file fits in the viewport.
Fits ==
    /\ page_offset = 0 /\ page_offset_x = 0
    /\ \A k \in 0..(Len(page) - 1) :
          (k = 0 \/ page[k] = NL) => LineEnd(k) - k < width - 1
    /\ LineCount < height - 1

\* The cells of rows from .. height-1 of the terminal in reading order, the
\* end of file markers left out.
RECURSIVE Emitted(_)
Emitted(from) ==
    IF from > height - 1 THEN <<>>
    ELSE (IF ret.rows[from] = <<126>> THEN <<>> ELSE ret.rows[from])
            \o Emitted(from + 1)

IsNoNewline(c) == c # NL

\* The cells that show the bytes of the file that are no newlines.
AllBytes ==
    LET bytes == SelectSeq(page, IsNoNewline)
    IN  [i \in 1..Len(bytes) |-> Glyph(bytes[i])]

\* C28: in both layouts, a file that fits in the viewport is shown whole:
\* the rows hold every byte that is no newline, once and in order, the last
\* byte of a file that does not end with a newline included.
C28_WholeBuffer ==
    (pc = "drawn" /\ Fits) => (ret.ok /\ Emitted(1) = AllBytes)

\* The cells of a wrapped row that starts at offset k and has room for n
\* more bytes: bytes up to a newline, the end of the file, or n.
RECURSIVE WrapFill(_, _)
WrapFill(k, n) ==
    IF n = 0 \/ k >= Len(page) \/ page[k + 1] = NL THEN <<>>
    ELSE <<Glyph(page[k + 1])>> \o WrapFill(k + 1, n - 1)

\* The offset at which the row after that one starts: after the newline
\* that ended it, or after its n bytes.
RECURSIVE WrapNext(_, _)
WrapNext(k, n) ==
    IF n = 0 \/ k >= Len(page) THEN k
    ELSE IF page[k + 1] = NL THEN k + 1
    ELSE WrapNext(k + 1, n - 1)

\* The offset at which row r starts when rows hold w bytes.
RECURSIVE WrapRowStart(_, _)
WrapRowStart(r, w) ==
    IF r = 0 THEN page_offset ELSE WrapNext(WrapRowStart(r - 1, w), w)

\* C29: wrapped, the bytes from page_offset on are shown in file order, a
\* row ending when it holds width bytes or at a newline, which is not
\* shown, down to the end of the file or row height-2, whatever
\* page_offset_x is.
C29_WrapRows ==
    (pc = "drawn" /\ wrap) =>
        /\ ret.ok
        /\ \A r \in 0..(height - 2) :
              WrapRowStart(r, width) < Len(page)
                 => ret.rows[r + 1] = WrapFill(WrapRowStart(r, width), width)

----------------------------------------------------------------------------
(* Claims on the editing sessions (Spec), continued. *)

\* SpecVertical: the sessions of Normal mode that move the cursor and the
\* window up and down, on terminals of both heights.
VerticalKeys == {ARROW_UP, ARROW_DOWN, PGUP, PGDN}

InitVertical ==
    /\ \E p \in Buffers, s \in Surroundings, ht \in Heights \cup {ViewHeight} :
          InitEditor(p, s[1], s[2], FALSE, ViewWidth, ht)
    /\ pc = "main" /\ arg = 0 /\ ret = 0

VerticalStep ==
    /\ pc = "main" /\ proc = "running"
    /\ \E c \in VerticalKeys :
       \E env \in EnvsOf(Editor, c) : Looped(main_loop(Editor, c, env), c)
    /\ UNCHANGED <<pc, arg, ret>>

NextVertical == VerticalStep

SpecVertical == InitVertical /\ [][NextVertical]_vars

\* The viewport after qe_move_window_y(n) in the present state.
ScrolledBy(n) == qe_move_window_y(Editor, n).page_offset

\* C30: ArrowUp and ArrowDown move the cursor by dy = -1 or +1.  Within
\* rows 0 .. height-2 only cursor_y changes; above row 0 with page_offset
\* = 0 nothing changes; above row 0 with page_offset > 0 the window scrolls
\* by -(height/2) lines and cursor_y becomes height-2; below row height-2
\* it scrolls by height/2 lines and cursor_y becomes 0.
C30_CursorVertical ==
    [][(\E m \in {MODE_NORMAL, MODE_INSERT} :
            Handled(m, ARROW_UP) \/ Handled(m, ARROW_DOWN))
       => LET dy == IF key' = ARROW_DOWN THEN 1 ELSE -1
          IN  /\ (0 <= cursor_y + dy /\ cursor_y + dy <= height - 2)
                 => /\ cursor_y' = cursor_y + dy
                    /\ UNCHANGED <<page_offset, page_offset_x, cursor_x>>
              /\ (cursor_y + dy < 0 /\ page_offset = 0)
                 => /\ UNCHANGED <<page_offset, page_offset_x, cursor_x,
                                   cursor_y, status_buffer>>
                    /\ ~dirty' /\ ~dirty_cursor'
              /\ (cursor_y + dy < 0 /\ page_offset > 0)
                 => /\ page_offset' = ScrolledBy(-(height \div 2))
                    /\ cursor_y' = height - 2
                    /\ UNCHANGED <<page_offset_x, cursor_x>>
              /\ (cursor_y + dy > height - 2)
                 => /\ page_offset' = ScrolledBy(height \div 2)
                    /\ cursor_y' = 0
                    /\ UNCHANGED <<page_offset_x, cursor_x>>
      ]_vars

\* ArrowUp on row 0 of a window that was scrolled: the cursor is on the
\* last row and the window is to be drawn.
C30_Witness ==
    /\ proc = "running" /\ key = ARROW_UP
    /\ cursor_y = height - 2 /\ dirty /\ dirty_cursor

----------------------------------------------------------------------------
(* SpecColumn: qe_move_cursor_x and qe_move_window_x called once, as the   *)
(* key cases call them while the window is drawn (dirty = 0), for every    *)
(* small file and for the values of page_offset_x that Ctrl-L (which adds  *)
(* width / 2 without an upper limit) and a search hit (which stores the    *)
(* column of the hit) leave: the small ones, and the last ones for which  *)
(* the column of the cursor is at most INT32_MAX.                          *)

FarColumns == {INT32_MAX - (ViewWidth - 1) - k : k \in 0..1}

Columns == 0..MaxPox \cup FarColumns

InitColumn ==
    /\ \E p \in Buffers :
       \E pox \in Columns, cx \in 0..(ViewWidth - 1) :
          Starts([qe_init(p, <<>>, <<>>, FALSE, ViewWidth, ViewHeight)
                    EXCEPT !.page_offset_x = pox, !.cursor_x = cx,
                           !.dirty = FALSE])
    /\ pc = "column" /\ arg = 0 /\ ret = 0

\* One call qe_move_cursor_x(dx), dx = -1 or 1.
MoveCursorX ==
    /\ pc = "column" /\ proc = "running"
    /\ \E dx \in {-1, 1} :
          /\ Assign(qe_move_cursor_x(Editor, dx))
          /\ arg' = dx
    /\ pc' = "moved"
    /\ UNCHANGED <<key, ret>>

\* One call qe_move_window_x(n).
MoveWindowX ==
    /\ pc = "column" /\ proc = "running"
    /\ \E n \in (-MaxN)..MaxN :
          /\ Assign(qe_move_window_x(Editor, n))
          /\ arg' = n
    /\ pc' = "scrolled"
    /\ UNCHANGED <<key, ret>>

NextColumn == MoveCursorX \/ MoveWindowX

SpecColumn == InitColumn /\ [][NextColumn]_vars

\* The move to the right is refused: the new column is in the view and the
\* byte after the cursor's byte is a newline.
RefusedAtNewline ==
    /\ arg' = 1
    /\ Int32Add(page_offset_x + cursor_x, 1) \in 0..(width - 1)
    /\ LET pos == qe_get_cursor_byte_position(Editor)
       IN  pos.ok /\ Mapped(Editor, pos.off + 1) /\ IsNL(Editor, pos.off + 1)

\* C31: a qe_move_cursor_x(dx), dx in {-1, +1}, that is not refused because
\* of a following newline changes the absolute column page_offset_x +
\* cursor_x by exactly dx, except that the column stays 0 when it was 0 and
\* dx = -1, for every page_offset_x, also where the new column is beyond
\* the range of a 32-bit signed integer.
C31_ColumnByOne ==
    [][(pc' = "moved" /\ proc' = "running" /\ ~RefusedAtNewline)
          => (page_offset_x' - page_offset_x) + (cursor_x' - cursor_x) =
                IF page_offset_x + cursor_x = 0 /\ arg' = -1 THEN 0
                ELSE arg']_vars

\* C32: qe_move_window_x(n) sets page_offset_x to max(0, page_offset_x + n)
\* and leaves page_offset, cursor_x, cursor_y, the mode and the buffer
\* unchanged; whenever it changes page_offset_x, the clamp to 0 from a
\* positive value included, the window is marked dirty.
C32_ScrollColumns ==
    [][pc' = "scrolled"
          => /\ page_offset_x' =
                   IF page_offset_x + arg' < 0 THEN 0
                   ELSE page_offset_x + arg'
             /\ UNCHANGED <<page_offset, cursor_x, cursor_y, mode, page>>
             /\ page_offset_x' # page_offset_x => dirty']_vars

----------------------------------------------------------------------------
(* SpecReadkey: one call of qe_readkey, read by read.  pc is "readkey"     *)
(* (at the first read), "c1", "c2", "c3" (at the lookahead read of that    *)
(* byte) or "returned"; ret holds the bytes read so far (-1: not read) and *)
(* the number of lookahead reads made; key is the value returned.  The     *)
(* terminal is in the mode qe_terminal_init set (VMIN = 0, VTIME = 1): a   *)
(* read returns 1 with a byte, 0 when none arrived within a tenth of a     *)
(* second, or -1 when it failed (EINTR or another error).  A first read    *)
(* that returns 0 is repeated after sched_yield() and leaves the state as  *)
(* it is.                                                                  *)

\* The bytes the terminal delivers: ESC, '[', 'O', 'A'..'D', 'H', 'F',
\* '0'..'9', '~', 'a', and 200 (a byte outside ASCII).
ReadBytes == {27, 91, 79, 65, 66, 67, 68, 72, 70, 126, CharA, 200} \cup 48..57

\* The outcomes of read(STDIN_FILENO, &c, 1): the value returned, and the
\* byte stored when it is 1.
ReadOutcomes == [n : {1}, b : ReadBytes] \cup [n : {0, -1}, b : {0}]

\* The int values of a char holding byte b: char is signed or unsigned, as
\* the platform has it.
CharInts(b) == IF b < 128 THEN {b} ELSE {b, b - 256}

InitReadkey ==
    /\ Starts([qe_init(<<NL>>, <<>>, <<>>, FALSE, ViewWidth, ViewHeight)
                 EXCEPT !.dirty = FALSE])
    /\ pc = "readkey" /\ arg = 0
    /\ ret = [c |-> -1, c1 |-> -1, c2 |-> -1, c3 |-> -1, reads |-> 0]

\* return k
readkey_return(k) ==
    /\ pc' = "returned" /\ key' = k
    /\ Assign(Editor)

\* The first read returned a byte.
ReadFirst ==
    /\ pc = "readkey" /\ proc = "running"
    /\ \E b \in ReadBytes :
          /\ ret' = [ret EXCEPT !.c = b]
          /\ IF b = ESC
             THEN pc' = "c1" /\ Assign(Editor) /\ UNCHANGED key
             ELSE \E k \in CharInts(b) : readkey_return(k)
    /\ UNCHANGED arg

\* The first read returned -1: with EINTR qe_readkey returns 0, with
\* another error it ends the process through fatal.
ReadFirstFails ==
    /\ pc = "readkey" /\ proc = "running"
    /\ \/ readkey_return(0)
       \/ /\ Assign(fatal(Editor))
          /\ pc' = "returned" /\ UNCHANGED key
    /\ UNCHANGED <<arg, ret>>

\* switch (c2) of the sequences ESC [ c2 ~
readkey_tilde_swapped(c2) ==
    CASE c2 \in {49, 55} -> END
      [] c2 \in {52, 56} -> HOME
      [] c2 = 51 -> DEL
      [] c2 = 53 -> PGUP
      [] c2 = 54 -> PGDN
      [] OTHER -> ESC

readkey_tilde(c2) ==
    CASE c2 \in {49, 55} -> HOME
      [] c2 \in {52, 56} -> END
      [] c2 = 51 -> DEL
      [] c2 = 53 -> PGUP
      [] c2 = 54 -> PGDN
      [] OTHER -> ESC

\* switch (c2) of the sequences ESC [ c2
readkey_bracket(c2) ==
    CASE c2 = 65 -> ARROW_UP
      [] c2 = 66 -> ARROW_DOWN
      [] c2 = 67 -> ARROW_RIGHT
      [] c2 = 68 -> ARROW_LEFT
      [] c2 = 72 -> HOME
      [] c2 = 70 -> END
      [] OTHER -> ESC

\* switch (c2) of the sequences ESC O c2
readkey_o(c2) ==
    CASE c2 = 72 -> HOME
      [] c2 = 70 -> END
      [] OTHER -> ESC

\* The lookahead read of c1.
ReadC1 ==
    /\ pc = "c1" /\ proc = "running"
    /\ \E r \in ReadOutcomes :
          IF r.n # 1
          THEN /\ readkey_return(ESC)
               /\ ret' = [ret EXCEPT !.reads = 1]
          ELSE /\ pc' = "c2" /\ Assign(Editor) /\ UNCHANGED key
               /\ ret' = [ret EXCEPT !.c1 = r.b, !.reads = 1]
    /\ UNCHANGED arg

\* The lookahead read of c2, and the tests on c1 and c2 after it.
ReadC2 ==
    /\ pc = "c2" /\ proc = "running"
    /\ \E r \in ReadOutcomes :
          IF r.n # 1
          THEN /\ readkey_return(ESC)
               /\ ret' = [ret EXCEPT !.reads = 2]
          ELSE /\ ret' = [ret EXCEPT !.c2 = r.b, !.reads = 2]
               /\ IF ret.c1 = 91
                  THEN IF r.b >= 48 /\ r.b <= 57
                       THEN pc' = "c3" /\ Assign(Editor) /\ UNCHANGED key
                       ELSE readkey_return(readkey_bracket(r.b))
                  ELSE IF ret.c1 = 79
                  THEN readkey_return(readkey_o(r.b))
                  ELSE readkey_return(ESC)
    /\ UNCHANGED arg

\* The lookahead read of c3, and the test on it.
ReadC3 ==
    /\ pc = "c3" /\ proc = "running"
    /\ \E r \in ReadOutcomes :
          IF r.n # 1
          THEN /\ readkey_return(ESC)
               /\ ret' = [ret EXCEPT !.reads = 3]
          ELSE /\ ret' = [ret EXCEPT !.c3 = r.b, !.reads = 3]
               /\ IF r.b = 126
                  THEN readkey_return(readkey_tilde(ret.c2))
                  ELSE readkey_return(ESC)
    /\ UNCHANGED arg

NextReadkey ==
    \/ ReadFirst
    \/ ReadFirstFails
    \/ ReadC1
    \/ ReadC2
    \/ ReadC3

SpecReadkey == InitReadkey /\ [][NextReadkey]_vars

\* The bytes read after the ESC.
Continuation ==
    IF ret.c1 = -1 THEN <<>>
    ELSE IF ret.c2 = -1 THEN <<ret.c1>>
    ELSE IF ret.c3 = -1 THEN <<ret.c1, ret.c2>>
    ELSE <<ret.c1, ret.c2, ret.c3>>

\* The recognized sequences and their keycodes ('1' is 49, ..., '8' is 56).
Recognized ==
    {<<<<91, 65>>, ARROW_UP>>, <<<<91, 66>>, ARROW_DOWN>>,
     <<<<91, 67>>, ARROW_RIGHT>>, <<<<91, 68>>, ARROW_LEFT>>,
     <<<<91, 72>>, HOME>>, <<<<79, 72>>, HOME>>,
     <<<<91, 70>>, END>>, <<<<79, 70>>, END>>,
     <<<<91, 49, 126>>, HOME>>, <<<<91, 55, 126>>, HOME>>,
     <<<<91, 52, 126>>, END>>, <<<<91, 56, 126>>, END>>,
     <<<<91, 51, 126>>, DEL>>, <<<<91, 53, 126>>, PGUP>>,
     <<<<91, 54, 126>>, PGDN>>}

\* C33: after a leading ESC qe_readkey returns the keycode of the sequence
\* read when it is one of the recognized sequences (arrows, Home, End,
\* Delete, PageUp, PageDown) and the literal ESC (27) for every other
\* continuation and whenever a lookahead read yields no byte; it makes at
\* most three lookahead reads, each of which returns without waiting for a
\* byte; every keycode of a recognized sequence is greater than 255.
C33_EscapeSequences ==
    /\ (pc = "returned" /\ ret.c = ESC)
          => /\ \A s \in Recognized : Continuation = s[1] => key = s[2]
             /\ (\A s \in Recognized : Continuation # s[1]) => key = ESC
             /\ ret.reads <= 3
    /\ \A s \in Recognized : s[2] > 255
    /\ (pc \in {"c1", "c2", "c3"})
          => /\ ret.reads < 3
             /\ ENABLED (ReadC1 \/ ReadC2 \/ ReadC3)

\* ESC [ 6 ~ was read in three lookahead reads and PageDown returned.
C33_Witness ==
    /\ pc = "returned" /\ key = PGDN
    /\ Continuation = <<91, 54, 126>> /\ ret.reads = 3

----------------------------------------------------------------------------
(* SpecLoops: the loops of one key, iteration by iteration.  pc is "call"  *)
(* (a key case is about to call), "scan" (top of the while (1) of          *)
(* qe_move_window_y), "line" (test of its inner while), "hit" (test of the *)
(* while after a search hit), "for" (test of the for of                    *)
(* qe_get_cursor_byte_position) or "returned".  arg is the n of            *)
(* qe_move_window_y; ret holds the locals i, addr, actual_addr and offset, *)
(* and steps, the number of iterations the loop at pc has made.            *)

InitLoops ==
    /\ \E p \in Buffers, l \in LoMems :
       \E po \in 0..(Len(p) - 1), cy \in 0..MaxCy :
          Starts([qe_init(p, l, <<>>, FALSE, ViewWidth, ViewHeight)
                    EXCEPT !.page_offset = po, !.cursor_y = cy,
                           !.dirty = FALSE])
    /\ pc = "call" /\ arg = 0
    /\ ret = [i |-> 0, addr |-> 0, actual_addr |-> 0, offset |-> 0,
              steps |-> 0]

\* A key case calls qe_move_window_y(n).
CallMoveWindowY ==
    /\ pc = "call" /\ proc = "running"
    /\ \E n \in (-MaxN)..MaxN : arg' = n
    /\ pc' = "scan"
    /\ Assign(Editor)
    /\ UNCHANGED <<key, ret>>

\* One iteration of the while (1) of qe_move_window_y.
ScanStep ==
    /\ pc = "scan" /\ proc = "running"
    /\ LET step == IF arg > 0 THEN 1 ELSE -1
           an == IF arg > 0 THEN arg ELSE -arg
       IN  IF page_offset < 0
           THEN /\ Assign(qe_update_status_buffer(
                            [Editor EXCEPT !.page_offset = 0]))
                /\ pc' = "returned" /\ UNCHANGED ret
           ELSE IF page_offset >= st_size(Editor)
           THEN /\ Assign(qe_update_status_buffer(
                            [Editor EXCEPT
                               !.page_offset = st_size(Editor) - 1]))
                /\ pc' = "returned" /\ UNCHANGED ret
           ELSE IF IsNL(Editor, page_offset) /\ ret.i + 1 > an
           THEN IF step < 0
                THEN /\ Assign([Editor EXCEPT
                                  !.page_offset = page_offset + step])
                     /\ pc' = "line"
                     /\ ret' = [ret EXCEPT !.i = ret.i + 1, !.steps = 0]
                ELSE /\ Assign([qe_update_status_buffer(
                                  [Editor EXCEPT
                                     !.page_offset = page_offset + step])
                                  EXCEPT !.dirty = TRUE])
                     /\ pc' = "returned"
                     /\ ret' = [ret EXCEPT !.i = ret.i + 1]
           ELSE /\ Assign([Editor EXCEPT !.page_offset = page_offset + step])
                /\ pc' = "scan"
                /\ ret' = [ret EXCEPT
                             !.i = IF IsNL(Editor, page_offset)
                                   THEN ret.i + 1 ELSE ret.i,
                             !.steps = ret.steps + 1]
    /\ UNCHANGED <<key, arg>>

\* One test of the inner while of qe_move_window_y, with its body or,
\* when the test fails, the statements up to the return.
LineStep ==
    /\ pc = "line" /\ proc = "running"
    /\ IF page_offset # 0 /\ ~Mapped(Editor, page_offset)
       THEN Assign(Crash(Editor)) /\ UNCHANGED <<pc, ret>>
       ELSE IF page_offset # 0 /\ ~IsNL(Editor, page_offset)
       THEN /\ Assign([Editor EXCEPT !.page_offset = page_offset - 1])
            /\ ret' = [ret EXCEPT !.steps = ret.steps + 1]
            /\ UNCHANGED pc
       ELSE /\ Assign([qe_update_status_buffer(
                         [Editor EXCEPT
                            !.page_offset = IF page_offset # 0
                                            THEN page_offset + 1 ELSE 0])
                         EXCEPT !.dirty = TRUE])
            /\ pc' = "returned" /\ UNCHANGED ret
    /\ UNCHANGED <<key, arg>>

\* ENTER in MODE_SEARCH found the pattern at actual_addr.
CallSearchHit ==
    /\ pc = "call" /\ proc = "running"
    /\ \E a \in 0..(Len(page) - 1) :
          ret' = [ret EXCEPT !.addr = a, !.actual_addr = a]
    /\ pc' = "hit"
    /\ Assign(Editor)
    /\ UNCHANGED <<key, arg>>

\* One test of the while after a search hit, with its body or, when the
\* test fails, the assignments that follow the loop.
HitStep ==
    /\ pc = "hit" /\ proc = "running"
    /\ IF ret.addr > 0 /\ ~Mapped(Editor, ret.addr)
       THEN Assign(Crash(Editor)) /\ UNCHANGED <<pc, ret>>
       ELSE IF ret.addr > 0 /\ ~IsNL(Editor, ret.addr)
       THEN /\ ret' = [ret EXCEPT !.addr = ret.addr - 1,
                                  !.steps = ret.steps + 1]
            /\ Assign(Editor) /\ UNCHANGED pc
       ELSE /\ Assign(search_goto(Editor, ret.actual_addr,
                                  [ok |-> TRUE, addr |-> ret.addr]))
            /\ pc' = "returned" /\ UNCHANGED ret
    /\ UNCHANGED <<key, arg>>

\* A key case calls qe_get_cursor_byte_position().
CallCursorPosition ==
    /\ pc = "call" /\ proc = "running"
    /\ ret' = [ret EXCEPT !.offset = page_offset]
    /\ pc' = "for"
    /\ Assign(Editor)
    /\ UNCHANGED <<key, arg>>

\* One test of the for of qe_get_cursor_byte_position, with its body (the
\* memchr included) or, when the test fails, the return.
ForStep ==
    /\ pc = "for" /\ proc = "running"
    /\ IF ret.i >= cursor_y
       THEN Assign(Editor) /\ pc' = "returned" /\ UNCHANGED ret
       ELSE LET s == memchr_nl(Editor, ret.offset,
                               st_size(Editor) - ret.offset)
            IN  CASE s.r = "fault" ->
                        Assign(Crash(Editor)) /\ UNCHANGED <<pc, ret>>
                  [] s.r = "none" ->
                        Assign(Editor) /\ pc' = "returned" /\ UNCHANGED ret
                  [] OTHER ->
                        /\ Assign(Editor) /\ UNCHANGED pc
                        /\ ret' = [ret EXCEPT
                                     !.offset = (s.at - ret.offset) + 1,
                                     !.i = ret.i + 1,
                                     !.steps = ret.steps + 1]
    /\ UNCHANGED <<key, arg>>

NextLoops ==
    \/ CallMoveWindowY
    \/ ScanStep
    \/ LineStep
    \/ CallSearchHit
    \/ HitStep
    \/ CallCursorPosition
    \/ ForStep

SpecLoops == InitLoops /\ [][NextLoops]_vars

\* C34: the work of one key is bounded and control returns to the loop:
\* the scan of qe_move_window_y, its backward scan to the start of the
\* line (also when the counted newline is at offset 0) and the scan to the
\* start of the line of a search hit each make at most as many iterations
\* as the buffer has bytes, the loop of qe_get_cursor_byte_position makes
\* at most cursor_y, no loop ends the process, and while a loop has not
\* returned its next step is possible.
C34_KeyTerminates ==
    /\ proc = "running"
    /\ pc \in {"scan", "line", "hit"} => ret.steps <= Len(page)
    /\ pc = "for" => ret.steps <= cursor_y
    /\ pc \in {"scan", "line", "hit", "for"} => ENABLED NextLoops

====
